---- MODULE Spec2Model ----
(***************************************************************************)
(* Model of the research agent's orchestration core:                       *)
(*   - task_graph.py: Task, ResearchGraph, TaskPlanner                     *)
(*   - autonomous_researcher.py: the heuristic (legacy) agent              *)
(*   - enhanced_autonomous_researcher.py: the task-graph (enhanced) agent  *)
(* Scores are kept in tenths (0.6 is 6), so quality_score ranges over      *)
(* 0..10.                                                                  *)
(***************************************************************************)
EXTENDS Integers, Sequences, FiniteSets, TLC

VARIABLES
    agent,      \* "legacy" (AutonomousResearchAgent) or "enhanced"
    context,    \* the ResearchContext of the call or run
    pc,         \* position inside conduct_research, or the function under test
    iteration,  \* conduct_research's local `iteration`
    next_action,\* conduct_research's local `next_action`
    ret,        \* value returned by the last call checked on its own
    planner,    \* the args dicts of TaskPlanner.planning_templates
    store       \* the rows of the validation_results table

vars == <<agent, context, pc, iteration, next_action, ret, planner, store>>

----------------------------------------------------------------------------
(* Bounds of the model *)
MaxTasks == 2
MaxDeps == 2
MaxSources == 3     \* sources a context holds
MaxPlanTasks == 2   \* tasks of a plan other than the biblical_exegesis one
MaxPlans == 3       \* create_plan calls on one TaskPlanner

(* Python's None for Optional[str] fields *)
None == "<None>"

Range(s) == {s[i] : i \in 1..Len(s)}

RECURSIVE SeqsUpTo(_, _)
SeqsUpTo(S, n) ==
    IF n = 0 THEN {<<>>}
    ELSE LET shorter == SeqsUpTo(S, n - 1)
         IN shorter \cup {Append(s, x) : s \in {t \in shorter : Len(t) = n - 1}, x \in S}

----------------------------------------------------------------------------
(* task_graph.py *)

TaskStatuses == {"pending", "running", "completed", "failed"}

(* A task id. Template ids are plain names; the ids the enhanced policy     *)
(* makes up are "ADDED_{idx}_{timestamp}", kept as name, idx and timestamp *)
TaskId(name) == <<name, 0, 0>>

AddedId(idx, now) == <<"ADDED", idx, now>>

EmptyId == TaskId("")

Task(id, tool, depends_on) ==
    [id |-> id, tool |-> tool, depends_on |-> depends_on,
     status |-> "pending", error |-> None]

(* next((t for t in graph.tasks if t.id == dep_id), None): the position of *)
(* the first task with that id, 0 for None                                 *)
dep_task(tasks, dep_id) ==
    IF \E i \in 1..Len(tasks) : tasks[i].id = dep_id
    THEN CHOOSE i \in 1..Len(tasks) :
            /\ tasks[i].id = dep_id
            /\ \A j \in 1..(i - 1) : tasks[j].id # dep_id
    ELSE 0

(* dependencies_met with the dependencies not looked at *)
dependencies_met_unchecked(tasks, deps, k) == TRUE

(* dependencies_met with a missing dependency skipped instead of blocking *)
RECURSIVE dependencies_met_skip_missing(_, _, _)
dependencies_met_skip_missing(tasks, deps, k) ==
    IF k > Len(deps) THEN TRUE
    ELSE LET d == dep_task(tasks, deps[k])
         IN IF d # 0 /\ tasks[d].status # "completed"
            THEN FALSE
            ELSE dependencies_met_skip_missing(tasks, deps, k + 1)

(* dependencies_met with a failed dependency counted as met *)
RECURSIVE dependencies_met_failed_ok(_, _, _)
dependencies_met_failed_ok(tasks, deps, k) ==
    IF k > Len(deps) THEN TRUE
    ELSE LET d == dep_task(tasks, deps[k])
         IN IF d = 0 \/ tasks[d].status \notin {"completed", "failed"}
            THEN FALSE
            ELSE dependencies_met_failed_ok(tasks, deps, k + 1)

(* the inner for-loop of get_ready_tasks, from dependency k on *)
RECURSIVE dependencies_met(_, _, _)
dependencies_met(tasks, deps, k) ==
    IF k > Len(deps) THEN TRUE
    ELSE LET d == dep_task(tasks, deps[k])
         IN IF d = 0 \/ tasks[d].status # "completed"
            THEN FALSE
            ELSE dependencies_met(tasks, deps, k + 1)

(* ready_from without the test that skips tasks that are not pending *)
RECURSIVE ready_from_any_status(_, _)
ready_from_any_status(tasks, i) ==
    IF i > Len(tasks) THEN <<>>
    ELSE IF dependencies_met(tasks, tasks[i].depends_on, 1)
         THEN <<i>> \o ready_from_any_status(tasks, i + 1)
         ELSE ready_from_any_status(tasks, i + 1)

(* ready_from with each ready task inserted at the head of the list *)
RECURSIVE ready_from_inserted(_, _)
ready_from_inserted(tasks, i) ==
    IF i > Len(tasks) THEN <<>>
    ELSE IF tasks[i].status # "pending" THEN ready_from_inserted(tasks, i + 1)
    ELSE IF dependencies_met(tasks, tasks[i].depends_on, 1)
         THEN ready_from_inserted(tasks, i + 1) \o <<i>>
         ELSE ready_from_inserted(tasks, i + 1)

(* the outer for-loop of get_ready_tasks, from task i on; the result is    *)
(* the list of positions (in graph.tasks) of the tasks returned            *)
RECURSIVE ready_from(_, _)
ready_from(tasks, i) ==
    IF i > Len(tasks) THEN <<>>
    ELSE IF tasks[i].status # "pending" THEN ready_from(tasks, i + 1)
    ELSE IF dependencies_met(tasks, tasks[i].depends_on, 1)
         THEN <<i>> \o ready_from(tasks, i + 1)
         ELSE ready_from(tasks, i + 1)

(* get_ready_tasks with each ready task put in front of the list *)
get_ready_tasks_newest_first(graph) ==
    LET r == ready_from(graph.tasks, 1)
    IN [k \in 1..Len(r) |-> r[Len(r) + 1 - k]]

get_ready_tasks(graph) == ready_from(graph.tasks, 1)

----------------------------------------------------------------------------
(* ResearchGoal and ResearchContext (both agent modules declare the same   *)
(* fields; task_graph and validation_results exist in the enhanced one)    *)

DefaultPerspectives == <<"evangelical", "progressive", "orthodox", "academic">>

DefaultCriteria ==
    <<"sufficient_sources_found", "multiple_perspectives_represented",
      "key_themes_identified", "quality_score_met", "citations_validated">>

ResearchGoal(min_sources, max_sources, threshold, perspectives, validation) ==
    [min_sources |-> min_sources, max_sources |-> max_sources,
     quality_threshold |-> threshold,
     required_perspectives |-> perspectives,
     completion_criteria |-> DefaultCriteria,
     enable_validation |-> validation]

NoGraph == [is_none |-> TRUE, tasks |-> <<>>]

ResearchGraph(tasks) == [is_none |-> FALSE, tasks |-> tasks]

NoThemes == [t \in {} |-> 0]

ResearchContext(goal) ==
    [goal |-> goal, sources |-> <<>>, insights |-> [key_themes |-> NoThemes],
     quality_score |-> 0, current_focus |-> "initial_discovery",
     completed_criteria |-> <<>>, failed_attempts |-> 0,
     action_history |-> <<>>, max_same_action_attempts |-> 3,
     task_graph |-> NoGraph, validation_results |-> None]

(* A source is a dict; the model keeps what the agents read from it.       *)
(* description is the set of the keywords that occur in the lower-cased    *)
(* description text; title and url are assumed to contain no keyword.      *)
Source(url, title, description, source_type) ==
    [url |-> url, title |-> title, description |-> description,
     source_type |-> source_type, content_processed |-> FALSE,
     content |-> {}, author_perspective |-> None, theological_themes |-> {},
     perspective |-> None, validation |-> None]

(* the slice forgotten: the whole list *)
LastN_whole(s, n) == s

(* Tail of a list: action_history[-n:] *)
LastN(s, n) ==
    IF n = 0 \/ Len(s) <= n THEN s ELSE SubSeq(s, Len(s) - n + 1, Len(s))

Count(s, x) == Cardinality({i \in 1..Len(s) : s[i] = x})

(* can_perform_action with the loop guard left out *)
can_perform_action_unguarded(ctx, action) == TRUE

(* can_perform_action that allows an action only when the window holds    *)
(* none of it                                                              *)
can_perform_action_once(ctx, action) ==
    action \notin Range(LastN(ctx.action_history, ctx.max_same_action_attempts))

(* autonomous_researcher.py ResearchContext.can_perform_action *)
can_perform_action(ctx, action) ==
    LET recent_actions == LastN(ctx.action_history, ctx.max_same_action_attempts)
    IN Count(recent_actions, action) < ctx.max_same_action_attempts

(* the enhanced can_perform_action with the loop guard left out *)
can_perform_action_enhanced_unguarded(ctx, action) == TRUE

(* enhanced_autonomous_researcher.py ResearchContext.can_perform_action *)
can_perform_action_enhanced(ctx, action) ==
    IF Len(ctx.action_history) >= ctx.max_same_action_attempts
    THEN LET recent_actions ==
                 LastN(ctx.action_history, ctx.max_same_action_attempts)
         IN ~(Count(recent_actions, action) >= ctx.max_same_action_attempts)
    ELSE TRUE

(* add_action that records an action only when it differs from the last   *)
(* one recorded                                                            *)
add_action_distinct(ctx, action) ==
    IF ctx.action_history # <<>>
       /\ ctx.action_history[Len(ctx.action_history)] = action
    THEN ctx
    ELSE [ctx EXCEPT !.action_history = Append(@, action)]

(* ResearchContext.add_action *)
add_action(ctx, action) ==
    [ctx EXCEPT !.action_history = Append(@, action)]

----------------------------------------------------------------------------
(* autonomous_researcher.py: AutonomousResearchAgent (the legacy agent)    *)

(* an action dict; absent keys hold None or an empty collection *)
Action(name) ==
    [action |-> name, reason |-> None, strategy |-> None, query |-> None,
     perspectives |-> <<>>, focus |-> {}, gaps |-> <<>>, task |-> 0]

Complete(reason) == [Action("complete") EXCEPT !.reason = reason]

(* `kw in str(s).lower()`: the dict's text holds the description, the      *)
(* stored content, the source_type and, once insights are attached, the    *)
(* key 'theological_themes'                                                *)
str_has(s, kw) ==
    \/ kw \in s.description
    \/ kw \in s.content
    \/ kw = s.source_type
    \/ (kw = "theological" /\ s.content_processed)

_find_missing_perspectives(ctx) ==
    LET found_perspectives ==
            {p \in Range(ctx.goal.required_perspectives) :
                \E i \in 1..Len(ctx.sources) : p \in ctx.sources[i].description}
    IN SelectSeq(ctx.goal.required_perspectives,
                 LAMBDA p : p \notin found_perspectives)

_count_perspectives(ctx) ==
    Len(ctx.goal.required_perspectives) - Len(_find_missing_perspectives(ctx))

_generate_targeted_query(ctx) ==
    LET current_themes == DOMAIN ctx.insights.key_themes
    IN IF "historical_context" \notin current_themes
            THEN "historical context ancient near east"
       ELSE IF "theological_implications" \notin current_themes
            THEN "theological implications systematic theology"
       ELSE IF "scholarly_debate" \notin current_themes
            THEN "scholarly debate controversy"
       ELSE "recent scholarship 2023 2024"

_is_recent(s) == "recent" \in s.description

_identify_quality_issues(ctx) ==
    LET n == Len(ctx.sources)
        academic_sources == {i \in 1..n : str_has(ctx.sources[i], "academic")}
        recent_sources == {i \in 1..n : _is_recent(ctx.sources[i])}
        processed_sources == {i \in 1..n : ctx.sources[i].content_processed}
    IN  (IF 2 * Cardinality(academic_sources) < n
            THEN {"low_academic_ratio"} ELSE {})
        \cup (IF Cardinality(recent_sources) < 2
            THEN {"outdated_sources"} ELSE {})
        \cup (IF Cardinality(processed_sources) < 3
            THEN {"insufficient_content_analysis"} ELSE {})

_identify_knowledge_gaps(ctx) ==
    LET has(kw) == \E i \in 1..Len(ctx.sources) : str_has(ctx.sources[i], kw)
    IN  (IF ~has("historical") THEN <<"historical_context">> ELSE <<>>)
        \o (IF ~has("theological") THEN <<"theological_analysis">> ELSE <<>>)
        \o (IF ~has("scholarly") THEN <<"scholarly_consensus">> ELSE <<>>)

_all_criteria_met(ctx) ==
    \A c \in Range(ctx.goal.completion_criteria) :
        c \in Range(ctx.completed_criteria)

(* _assess_quality with the source credit given only above min_sources *)
_assess_quality_above(ctx) ==
    LET n == Len(ctx.sources)
        processed_count ==
            Cardinality({i \in 1..n : ctx.sources[i].content_processed})
        perspectives ==
            {ctx.sources[i].author_perspective :
                i \in {j \in 1..n : ctx.sources[j].content_processed}}
        themes == DOMAIN ctx.insights.key_themes
        score == (IF n > ctx.goal.min_sources THEN 3 ELSE 0)
                 + (IF processed_count >= 3 THEN 4
                    ELSE IF processed_count >= 1 THEN 2 ELSE 0)
                 + (IF Cardinality(perspectives) >= 2 THEN 2 ELSE 0)
                 + (IF Cardinality(themes) >= 3 THEN 1 ELSE 0)
    IN IF score < 10 THEN score ELSE 10

(* _assess_quality, in tenths *)
_assess_quality(ctx) ==
    LET n == Len(ctx.sources)
        processed_count ==
            Cardinality({i \in 1..n : ctx.sources[i].content_processed})
        perspectives ==
            {ctx.sources[i].author_perspective :
                i \in {j \in 1..n : ctx.sources[j].content_processed}}
        themes == DOMAIN ctx.insights.key_themes
        score == (IF n >= ctx.goal.min_sources THEN 3 ELSE 0)
                 + (IF processed_count >= 3 THEN 4
                    ELSE IF processed_count >= 1 THEN 2 ELSE 0)
                 + (IF Cardinality(perspectives) >= 2 THEN 2 ELSE 0)
                 + (IF Cardinality(themes) >= 3 THEN 1 ELSE 0)
    IN IF score < 10 THEN score ELSE 10

(* the criteria_status dict of _is_research_complete, in insertion order *)
criteria_status(ctx) ==
    LET perspectives_found == Len(_find_missing_perspectives(ctx))
        theme_count == Cardinality(DOMAIN ctx.insights.key_themes)
    IN << <<"sufficient_sources_found",
            Len(ctx.sources) >= ctx.goal.min_sources>>,
          <<"multiple_perspectives_represented", perspectives_found >= 2>>,
          <<"quality_score_met",
            ctx.quality_score >= ctx.goal.quality_threshold>>,
          <<"key_themes_identified", theme_count >= 3>>,
          <<"citations_validated", Len(ctx.sources) >= 3>> >>

(* context.completed_criteria = [k for k, v in criteria_status.items() if v] *)
track_completed_criteria(ctx) ==
    LET kept == SelectSeq(criteria_status(ctx), LAMBDA kv : kv[2])
    IN [ctx EXCEPT !.completed_criteria = [i \in 1..Len(kept) |-> kept[i][1]]]

(* _is_research_complete forcing completion one failed attempt early *)
_is_research_complete_early(ctx) ==
    LET c == track_completed_criteria(ctx)
        basic_completion ==
            /\ Len(c.sources) >= c.goal.min_sources
            /\ c.quality_score >= 4
            /\ Len(c.completed_criteria) >= 3
    IN [context |-> c,
        value |-> IF basic_completion THEN TRUE ELSE c.failed_attempts >= 4]

(* _is_research_complete: the context it leaves and the value it returns *)
_is_research_complete(ctx) ==
    LET c == track_completed_criteria(ctx)
        basic_completion ==
            /\ Len(c.sources) >= c.goal.min_sources
            /\ c.quality_score >= 4
            /\ Len(c.completed_criteria) >= 3
    IN [context |-> c,
        value |-> IF basic_completion THEN TRUE ELSE c.failed_attempts >= 5]

(* the escape hatch with the bound taken exclusive *)
max_attempts_reached_above(ctx) == ctx.failed_attempts > 5

(* the escape hatch taken from no failed attempt on *)
max_attempts_reached_at_zero(ctx) == ctx.failed_attempts >= 0

(* if context.failed_attempts >= 5, the first statement of both            *)
(* _decide_next_action methods                                             *)
max_attempts_reached(ctx) == ctx.failed_attempts >= 5

(* _decide_next_action: the context it leaves (current_focus may change)   *)
(* and the action it returns                                               *)
_decide_next_action(ctx) ==
    LET n == Len(ctx.sources)
        missing_perspectives == _find_missing_perspectives(ctx)
        gaps == _identify_knowledge_gaps(ctx)
        same(a) == [context |-> ctx, action |-> a]
    IN
    IF max_attempts_reached(ctx) THEN same(Complete("max_attempts_reached"))
    ELSE IF n < ctx.goal.min_sources /\ can_perform_action(ctx, "discover_sources")
    THEN IF n < 3
         THEN same([Action("discover_sources") EXCEPT
                        !.strategy = "broad_search",
                        !.query = "theological commentary scholarly"])
         ELSE same([Action("discover_sources") EXCEPT
                        !.strategy = "targeted_search",
                        !.query = _generate_targeted_query(ctx)])
    ELSE IF missing_perspectives # <<>>
            /\ can_perform_action(ctx, "discover_sources")
    THEN same([Action("discover_sources") EXCEPT
                   !.strategy = "perspective_search",
                   !.perspectives = missing_perspectives])
    ELSE IF n >= ctx.goal.min_sources /\ ctx.current_focus = "initial_discovery"
    THEN [context |-> [ctx EXCEPT !.current_focus = "content_analysis"],
          action |-> Action("fetch_content")]
    ELSE IF ctx.quality_score < ctx.goal.quality_threshold
            /\ can_perform_action(ctx, "improve_quality")
    THEN same([Action("improve_quality") EXCEPT
                   !.focus = _identify_quality_issues(ctx)])
    ELSE IF gaps # <<>> /\ can_perform_action(ctx, "fill_gaps")
    THEN same([Action("fill_gaps") EXCEPT !.gaps = gaps])
    ELSE IF _all_criteria_met(ctx) THEN same(Complete("criteria_met"))
    ELSE IF can_perform_action(ctx, "synthesize_current_findings")
    THEN same(Action("synthesize_current_findings"))
    ELSE same(Complete("no_viable_actions"))

(* the environment: what a search call may return *)
Catalogue ==
    { Source("u1", "t1", {"evangelical", "historical", "historical context"}, None),
      Source("u2", "t2", {"progressive", "theological", "scholarly"}, "academic"),
      Source("u3", "t3", {"academic", "recent"}, None),
      Source("", "t4", {"orthodox"}, None) }

(* a search call returns no source, one of the catalogue, or two of them *)
SearchResults ==
    {<<>>} \cup {<<s>> : s \in Catalogue}
    \cup {<<s, t>> : s \in {x \in Catalogue : x.url = "u1"},
                    t \in {x \in Catalogue : x.url = "u2"}}

(* the environment: what fetching and analysing one page may give          *)
(* (_fetch_url_content and _extract_theological_insights)                  *)
FetchOutcomes ==
    { [ok |-> FALSE, content |-> {}, author_perspective |-> None,
       theological_themes |-> {}],
      [ok |-> TRUE, content |-> {"historical", "scholarly"},
       author_perspective |-> "evangelical",
       theological_themes |-> {"grace", "creation", "covenant"}],
      [ok |-> TRUE, content |-> {"academic"},
       author_perspective |-> "progressive",
       theological_themes |-> {"grace"}] }

(* _validate_source(source)['valid'] *)
_validate_source(s) == s.url # "" /\ s.title # ""

_filter_and_validate_sources(results) == SelectSeq(results, _validate_source)

_filter_sources_by_perspective(results, perspective) ==
    SelectSeq(results, LAMBDA s : perspective \in s.description)

RECURSIVE Concat(_, _)
Concat(f, k) == IF k = 0 THEN <<>> ELSE Concat(f, k - 1) \o f[k]

(* _discover_sources: new_sources for the search results the environment  *)
(* gives; `results` holds one result list per search call                  *)
_discover_sources(action, results) ==
    IF action.strategy = "perspective_search"
    THEN Concat([k \in 1..Len(action.perspectives) |->
                    _filter_sources_by_perspective(results[k],
                                                   action.perspectives[k])],
                Len(action.perspectives))
    ELSE _filter_and_validate_sources(results[1])

(* _fetch_content on one source dict *)
analyse(s, o) ==
    IF o.ok /\ s.url # ""
    THEN [s EXCEPT !.content = o.content,
                   !.author_perspective = o.author_perspective,
                   !.theological_themes = o.theological_themes,
                   !.content_processed = TRUE]
    ELSE s

(* _update_context, fetch_content branch: for each analysed source, in     *)
(* order, every source with the same url is updated with its keys          *)
RECURSIVE update_analysed(_, _, _)
update_analysed(sources, analysed, k) ==
    IF k > Len(analysed) THEN sources
    ELSE LET a == sources[analysed[k]]
         IN update_analysed(
                [i \in 1..Len(sources) |->
                    IF sources[i].url = a.url THEN a ELSE sources[i]],
                analysed, k + 1)

(* _synthesize_findings: insights.key_themes *)
source_themes(s) ==
    IF s.content_processed THEN s.theological_themes
    ELSE (IF "historical context" \in s.description
            THEN {"historical_context"} ELSE {})
         \cup (IF "theological" \in s.description
            THEN {"theological_implications"} ELSE {})
         \cup (IF "scholarly" \in s.description
            THEN {"scholarly_debate"} ELSE {})

_synthesize_findings(ctx) ==
    LET n == Len(ctx.sources)
        keys == UNION {source_themes(ctx.sources[i]) : i \in 1..n}
    IN [key_themes |->
            [t \in keys |->
                Cardinality({i \in 1..n : t \in source_themes(ctx.sources[i])})]]

(* _improve_quality: new_quality_score *)
_improve_quality(ctx, action) ==
    LET new_quality_score ==
            ctx.quality_score
            + (IF "low_academic_ratio" \in action.focus THEN 2 ELSE 0)
            + (IF "outdated_sources" \in action.focus THEN 1 ELSE 0)
    IN IF new_quality_score < 10 THEN new_quality_score ELSE 10

----------------------------------------------------------------------------
(* task_graph.py: TaskPlanner.planning_templates["biblical_exegesis"] and  *)
(* create_plan (ids, tools and dependencies; every task starts pending)    *)
biblical_exegesis ==
    << Task(TaskId("SEARCH_PRIMARY"), "web_search", <<>>),
       Task(TaskId("SEARCH_SECONDARY"), "web_search",
            <<TaskId("SEARCH_PRIMARY")>>),
       Task(TaskId("FETCH_PDFS"), "get_pdf",
            <<TaskId("SEARCH_PRIMARY"), TaskId("SEARCH_SECONDARY")>>),
       Task(TaskId("EXTRACT_CITATIONS"), "extract_metadata",
            <<TaskId("FETCH_PDFS")>>),
       Task(TaskId("CRITICAL_ANALYSIS"), "synthesize_research",
            <<TaskId("EXTRACT_CITATIONS")>>),
       Task(TaskId("VALIDATE_CITATIONS"), "hallucination_check",
            <<TaskId("CRITICAL_ANALYSIS")>>),
       Task(TaskId("FINAL_REPORT"), "save_note",
            <<TaskId("VALIDATE_CITATIONS")>>) >>

create_plan == ResearchGraph(biblical_exegesis)

(* A Python str is the sequence of its pieces: single characters, the      *)
(* literal chunks of the template strings, and the replacement fields      *)
(* "{topic}" and "{safe_topic}" of the templates.                          *)
arg_str(key, value) == [key |-> key, is_str |-> TRUE, value |-> value]

arg_int(key, value) == [key |-> key, is_str |-> FALSE, value |-> value]

(* the "args" dicts of planning_templates["biblical_exegesis"] as          *)
(* __init__ builds them, in task order, each in key order                  *)
planning_templates ==
    << << arg_str("query", <<"{topic}", " scholarly exegesis 2020..2025">>),
          arg_int("max_results", 5) >>,
       << arg_str("query",
                  <<"{topic}", " ancient near east context intertextuality">>),
          arg_int("max_results", 3) >>,
       << arg_str("urls_from", <<"SEARCH_PRIMARY">>) >>,
       << arg_str("pdf_ids_from", <<"FETCH_PDFS">>) >>,
       << arg_str("sources_from", <<"EXTRACT_CITATIONS">>),
          arg_str("topic", <<"{topic}">>) >>,
       << arg_str("content_from", <<"CRITICAL_ANALYSIS">>),
          arg_str("citations_from", <<"EXTRACT_CITATIONS">>) >>,
       << arg_str("filename", <<"{safe_topic}", ".md">>),
          arg_str("content_from", <<"VALIDATE_CITATIONS">>) >> >>

(* str.isalnum() of one character: true of letters and digits of any     *)
(* script, not only of ASCII ones                                         *)
isalnum(c) == c \in {"g", "p", "x", "1", "G", "é"}

(* c.isalnum() or c in (' ', '-', '_') *)
safe_char(c) == isalnum(c) \/ c \in {" ", "-", "_"}

(* rstrip that strips nothing *)
rstrip_nothing(str) == str

(* str.rstrip() *)
RECURSIVE rstrip(_)
rstrip(str) ==
    IF str # <<>> /\ str[Len(str)] = " "
    THEN rstrip(SubSeq(str, 1, Len(str) - 1))
    ELSE str

(* safe_topic of create_plan: filter, rstrip, replace(' ', '_') *)
safe_topic(topic) ==
    LET kept == rstrip(SelectSeq(topic, safe_char))
    IN [k \in 1..Len(kept) |-> IF kept[k] = " " THEN "_" ELSE kept[k]]

(* value.format(topic=topic, safe_topic=safe_topic): the two fields are    *)
(* replaced, and a brace left in the string by an earlier substitution     *)
(* opens a field format() cannot resolve: it raises                        *)
RECURSIVE format(_, _, _)
format(str, topic, safe) ==
    IF str = <<>> THEN [raised |-> FALSE, value |-> <<>>]
    ELSE LET rest == format(Tail(str), topic, safe)
             piece == IF Head(str) = "{topic}" THEN topic
                      ELSE IF Head(str) = "{safe_topic}" THEN safe
                      ELSE <<Head(str)>>
         IN IF Head(str) \in {"{", "}"} \/ rest.raised
            THEN [raised |-> TRUE, value |-> <<>>]
            ELSE [raised |-> FALSE, value |-> piece \o rest.value]

(* the loops of create_plan over the templates and over each args dict,    *)
(* from task i and key k on: task_template.copy() is shallow, so the       *)
(* assignment task_dict["args"][key] = ... writes the template's own dict  *)
RECURSIVE fill_args(_, _, _, _, _)
fill_args(pl, i, k, topic, safe) ==
    IF i > Len(pl) THEN [planner |-> pl, raised |-> FALSE]
    ELSE IF k > Len(pl[i]) THEN fill_args(pl, i + 1, 1, topic, safe)
    ELSE IF ~pl[i][k].is_str THEN fill_args(pl, i, k + 1, topic, safe)
    ELSE LET f == format(pl[i][k].value, topic, safe)
         IN IF f.raised THEN [planner |-> pl, raised |-> TRUE]
            ELSE fill_args([pl EXCEPT ![i][k].value = f.value],
                           i, k + 1, topic, safe)

(* create_plan(topic) on a planner whose template args are pl: the args    *)
(* it leaves in the templates, whether it raises, and the tasks of the     *)
(* graph it returns; a task's args is the template's dict itself, kept     *)
(* here as its position in planning_templates                              *)
create_plan_on(pl, topic) ==
    LET filled == fill_args(pl, 1, 1, topic, safe_topic(topic))
    IN [planner |-> filled.planner, raised |-> filled.raised,
        graph |-> [topic |-> topic,
                   tasks |-> [i \in 1..Len(biblical_exegesis) |->
                                 [id |-> biblical_exegesis[i].id,
                                  args |-> i]]]]

(* the topic of the goal a run is given *)
RunTopic == <<"g">>

----------------------------------------------------------------------------
(* enhanced_autonomous_researcher.py: EnhancedAutonomousResearchAgent      *)

(* _identify_gaps: the lengths of the gaps and suggestions lists it        *)
(* returns (one suggestion per missing perspective, one per key theme      *)
(* counted fewer than 2 times, one when sources are below min_sources)     *)
_identify_gaps(ctx) ==
    LET n == Len(ctx.sources)
        current_perspectives ==
            {ctx.sources[i].perspective :
                i \in {j \in 1..n : ctx.sources[j].perspective # None}}
        missing_perspectives ==
            Range(ctx.goal.required_perspectives) \ current_perspectives
        themes == ctx.insights.key_themes
        low == {t \in DOMAIN themes : themes[t] < 2}
        few == IF n < ctx.goal.min_sources THEN 1 ELSE 0
    IN [gaps |-> (IF missing_perspectives # {} THEN 1 ELSE 0)
                 + Cardinality(low) + few,
        suggestions |-> Cardinality(missing_perspectives)
                        + Cardinality(low) + few]

(* added_tasks with the last task's id read after each append, so that a  *)
(* new task names itself                                                  *)
added_tasks_after_append(tasks, count, now) ==
    [idx \in 1..count |->
        Task(AddedId(idx - 1, now), "web_search", <<AddedId(idx - 1, now)>>)]

(* added_tasks with the last task's id read inside the loop, before each  *)
(* append, so that the new tasks form a chain                             *)
added_tasks_chained(tasks, count, now) ==
    LET last_task_id == IF tasks # <<>> THEN tasks[Len(tasks)].id ELSE EmptyId
    IN [idx \in 1..count |->
            Task(AddedId(idx - 1, now), "web_search",
                 IF idx > 1 THEN <<AddedId(idx - 2, now)>>
                 ELSE IF last_task_id # EmptyId THEN <<last_task_id>> ELSE <<>>)]

(* the tasks _decide_next_action appends for the suggestions *)
added_tasks(tasks, count, now) ==
    LET last_task_id == IF tasks # <<>> THEN tasks[Len(tasks)].id ELSE EmptyId
    IN [idx \in 1..count |->
            Task(AddedId(idx - 1, now), "web_search",
                 IF last_task_id # EmptyId THEN <<last_task_id>> ELSE <<>>)]

ExecuteTask(i) == [Action("execute_task") EXCEPT !.task = i]

(* _decide_next_action of the enhanced agent at time `now`: the context it *)
(* leaves (tasks may be appended), the action it returns, and whether it   *)
(* raises instead (task_graph is None where its tasks are read)            *)
_decide_next_action_enhanced(ctx, now) ==
    LET ready_tasks == IF ctx.task_graph.is_none THEN <<>>
                       ELSE get_ready_tasks(ctx.task_graph)
        gap_result == _identify_gaps(ctx)
        grown == [ctx EXCEPT !.task_graph.tasks =
                     @ \o added_tasks(@, gap_result.suggestions, now)]
        new_ready == get_ready_tasks(grown.task_graph)
        returns(c, a) == [context |-> c, action |-> a, raised |-> FALSE]
    IN
    IF max_attempts_reached(ctx)
    THEN returns(ctx, Complete("max_attempts_reached"))
    ELSE IF ready_tasks # <<>>
    THEN returns(ctx, ExecuteTask(ready_tasks[1]))
    ELSE IF gap_result.suggestions > 0
    THEN IF ctx.task_graph.is_none
         THEN [context |-> ctx, action |-> Action("complete"), raised |-> TRUE]
         ELSE IF new_ready # <<>>
              THEN returns(grown, ExecuteTask(new_ready[1]))
              ELSE returns(grown, Complete("research_complete"))
    ELSE IF can_perform_action_enhanced(ctx, "synthesize_current_findings")
    THEN returns(ctx, Action("synthesize_current_findings"))
    ELSE returns(ctx, Complete("no_gaps_found"))

(* the completion check on the number of sources alone *)
_is_research_complete_enhanced_on_sources(ctx) ==
    Len(ctx.sources) >= ctx.goal.min_sources

(* _is_research_complete of the enhanced agent (it leaves the context as   *)
(* it is)                                                                  *)
_is_research_complete_enhanced(ctx) ==
    /\ Len(ctx.sources) >= ctx.goal.min_sources
    /\ ctx.quality_score >= ctx.goal.quality_threshold
    /\ Len(ctx.completed_criteria) >= 3

(* the themes _synthesize_insights counts *)
InsightThemes ==
    {"historical_context", "theological_implications", "scholarly_consensus",
     "contemporary_application"}

(* the counts _synthesize_insights can reach over n summaries, for         *)
(* summaries that name no theme, one theme, or every theme                 *)
theme_counts(n) ==
    {[t \in InsightThemes |-> IF t \in named THEN n ELSE 0] :
        named \in {{}, {"historical_context"}, InsightThemes}}

(* sources[:10] that process_source does not skip *)
summarised(ctx) ==
    {i \in 1..Len(ctx.sources) : i <= 10 /\ ctx.sources[i].url # ""}

(* a message carried by an exception of the LLM client *)
LLMError == "Connection error."

(* every tool with an executor that completes *)
task_outcomes_all_complete(ctx, task) == {[status |-> "completed", error |-> None]}

(* _execute_task: what a task's tool can end in, for the environment's     *)
(* answers: status and error                                               *)
task_outcomes(ctx, task) ==
    IF task.tool \in {"web_search", "validate_source"}
    THEN {[status |-> "completed", error |-> None]}
    ELSE IF task.tool = "synthesize_research"
    THEN {[status |-> "completed", error |-> None]}
         \cup (IF summarised(ctx) # {}
               THEN {[status |-> "failed", error |-> LLMError]} ELSE {})
    ELSE {[status |-> "failed", error |-> "Unknown task tool"]}

(* A Python value held in a result is native to JSON, or an object that    *)
(* json.dumps hands to default=str                                         *)
py_native(value) == [object |-> FALSE, value |-> value]

py_object(name) == [object |-> TRUE, value |-> name]

(* json.dumps(validation_result, default=str): the text, kept as the value *)
(* it denotes, each object replaced by its str()                           *)
json_dumps(result) ==
    [text |-> [k \in DOMAIN result |->
                 IF result[k].object THEN py_native(result[k].value)
                 ELSE result[k]]]

(* json.loads(text) *)
json_loads(data) == data.text

validation_row(graph_id, validation_result) ==
    [id |-> <<graph_id, "_validation">>, graph_id |-> graph_id,
     validation_data |-> json_dumps(validation_result)]

(* a plain INSERT into a table without the two uniqueness constraints *)
insert_only(rows, row) == rows \cup {row}

(* INSERT OR REPLACE: the rows in conflict on id or on graph_id are        *)
(* deleted, the new row is inserted                                        *)
insert_or_replace(rows, row) ==
    {r \in rows : r.id # row.id /\ r.graph_id # row.graph_id} \cup {row}

(* the values of a result dict as Python values *)
to_py(result) == [k \in DOMAIN result |-> py_native(result[k])]

(* hallucination_check called by _validate_research_content: the result  *)
(* is saved under the graph's id ('research' without a graph); the row     *)
(* keeps the verdict of the result.  The content of a run holds the titles *)
(* and urls of the sources and no citation of the (Author, year) kind, so  *)
(* json.dumps can write the result, and the database is taken to answer    *)
(* during a run (its failures are those of SaveValidationResult and        *)
(* HallucinationCheck).                                                    *)
save_run_validation(rows, ctx, validates, passed) ==
    IF validates /\ ctx.sources # <<>>
    THEN insert_or_replace(
             rows,
             validation_row(IF ctx.task_graph.is_none THEN "research" ELSE "uuid4",
                            to_py([validation_passed |-> passed])))
    ELSE rows

(* _validate_research_content given the validator's verdict *)
_validate_research_content(ctx, passed) ==
    IF ctx.sources = <<>> THEN ctx
    ELSE [ctx EXCEPT
            !.validation_results = IF passed THEN "passed" ELSE "not passed",
            !.quality_score = IF passed
                              THEN (IF @ + 1 < 10 THEN @ + 1 ELSE 10)
                              ELSE @]

(* _final_validation that leaves the context as the loop left it *)
_final_validation_left_out(ctx, passed) == ctx

(* _final_validation *)
_final_validation(ctx, passed) ==
    IF ctx.validation_results = None
    THEN _validate_research_content(ctx, passed)
    ELSE ctx

----------------------------------------------------------------------------
(* conduct_research of both agents, as a state machine over pc             *)

max_iterations == IF agent = "legacy" THEN 20 ELSE 25

Min(a, b) == IF a < b THEN a ELSE b

MinSourcesChoices == {0, 2, 5}
ThresholdChoices == {3, 6}
PerspectiveChoices == {DefaultPerspectives, <<"academic">>, <<>>}

Goals ==
    {ResearchGoal(ms, 15, qt, rp, ev) :
        ms \in MinSourcesChoices, qt \in ThresholdChoices,
        rp \in PerspectiveChoices, ev \in BOOLEAN}

NoResult == [research_complete |-> FALSE, iterations |-> 0, quality_score |-> 0]

(* conduct_research is entered with a goal; the context is constructed *)
Init ==
    /\ agent \in {"legacy", "enhanced"}
    /\ \E goal \in Goals :
          /\ (agent = "legacy" => goal.enable_validation)
          /\ context = ResearchContext(goal)
    /\ pc = "start"
    /\ iteration = 0
    /\ next_action = Action("none")
    /\ ret = NoResult
    /\ planner = planning_templates
    /\ store = {}

(* the plan is created when validation is enabled, then the number of      *)
(* tasks of context.task_graph is logged                                   *)
Start ==
    /\ pc = "start"
    /\ IF agent = "legacy"
       THEN /\ pc' = "loop"
            /\ UNCHANGED context
       ELSE /\ context' = [context EXCEPT !.task_graph =
                              IF context.goal.enable_validation
                              THEN create_plan ELSE @]
            /\ pc' = IF context'.task_graph.is_none THEN "raised" ELSE "loop"
    /\ planner' = IF agent = "enhanced" /\ context.goal.enable_validation
                  THEN create_plan_on(planner, RunTopic).planner
                  ELSE planner
    /\ UNCHANGED <<store, agent, iteration, next_action, ret>>

(* while not await self._is_research_complete(context)                     *)
(*       and iteration < max_iterations                                    *)
LoopTest ==
    /\ pc = "loop"
    /\ LET r == IF agent = "legacy" THEN _is_research_complete(context)
                ELSE [context |-> context,
                      value |-> _is_research_complete_enhanced(context)]
       IN /\ context' = r.context
          /\ pc' = IF ~r.value /\ iteration < max_iterations
                   THEN "decide" ELSE "finish"
    /\ UNCHANGED <<planner, store, agent, iteration, next_action, ret>>

(* iteration += 1; next_action = _decide_next_action(context);             *)
(* if next_action['action'] == 'complete': break                           *)
Decide ==
    /\ pc = "decide"
    /\ iteration' = iteration + 1
    /\ LET d == IF agent = "legacy"
                THEN [context |-> _decide_next_action(context).context,
                      action |-> _decide_next_action(context).action,
                      raised |-> FALSE]
                ELSE _decide_next_action_enhanced(context, iteration')
       IN /\ context' = d.context
          /\ next_action' = IF d.raised THEN next_action ELSE d.action
          /\ pc' = IF d.raised THEN "raised"
                   ELSE IF d.action.action = "complete" THEN "finish"
                   ELSE "execute"
    /\ UNCHANGED <<planner, store, agent, ret>>

(* legacy: _execute_action, _update_context and add_action for             *)
(* discover_sources                                                        *)
DiscoverSources ==
    /\ pc = "execute" /\ agent = "legacy"
    /\ next_action.action = "discover_sources"
    /\ LET calls == IF next_action.strategy = "perspective_search"
                    THEN Len(next_action.perspectives) ELSE 1
       IN \E results \in [1..calls -> SearchResults] :
            LET new_sources == _discover_sources(next_action, results)
                extended == [context EXCEPT !.sources = @ \o new_sources]
            IN /\ Len(extended.sources) <= MaxSources
               /\ context' = add_action(
                      [extended EXCEPT !.quality_score = _assess_quality(extended)],
                      next_action.action)
    /\ pc' = "loop"
    /\ UNCHANGED <<planner, store, agent, iteration, next_action, ret>>

(* legacy: fetch_content on context.sources[:3] *)
FetchContent ==
    /\ pc = "execute" /\ agent = "legacy"
    /\ next_action.action = "fetch_content"
    /\ LET k == Min(3, Len(context.sources))
       IN \E outcomes \in [1..k -> FetchOutcomes] :
            LET fetched == [i \in 1..Len(context.sources) |->
                                IF i <= k
                                THEN analyse(context.sources[i], outcomes[i])
                                ELSE context.sources[i]]
                content_analyzed ==
                    SelectSeq([i \in 1..k |-> i],
                              LAMBDA i : outcomes[i].ok
                                         /\ context.sources[i].url # "")
                updated == [context EXCEPT !.sources =
                               update_analysed(fetched, content_analyzed, 1)]
            IN context' = add_action(
                   [updated EXCEPT !.quality_score = _assess_quality(updated)],
                   next_action.action)
    /\ pc' = "loop"
    /\ UNCHANGED <<planner, store, agent, iteration, next_action, ret>>

(* legacy: improve_quality *)
ImproveQuality ==
    /\ pc = "execute" /\ agent = "legacy"
    /\ next_action.action = "improve_quality"
    /\ context' = add_action(
           [context EXCEPT !.quality_score = _improve_quality(context, next_action)],
           next_action.action)
    /\ pc' = "loop"
    /\ UNCHANGED <<planner, store, agent, iteration, next_action, ret>>

(* legacy: fill_gaps (its result changes nothing in the context) *)
FillGaps ==
    /\ pc = "execute" /\ agent = "legacy"
    /\ next_action.action = "fill_gaps"
    /\ context' = add_action(context, next_action.action)
    /\ pc' = "loop"
    /\ UNCHANGED <<planner, store, agent, iteration, next_action, ret>>

(* legacy: synthesize_current_findings *)
SynthesizeFindings ==
    /\ pc = "execute" /\ agent = "legacy"
    /\ next_action.action = "synthesize_current_findings"
    /\ LET synthesised == [context EXCEPT !.insights = _synthesize_findings(context)]
       IN context' = add_action(
              [synthesised EXCEPT !.quality_score = _assess_quality(synthesised)],
              next_action.action)
    /\ pc' = "loop"
    /\ UNCHANGED <<planner, store, agent, iteration, next_action, ret>>

(* the rest of an iteration with a source folded into the context *)
after_action_with_source(ctx, insights, passed) ==
    add_action([ctx EXCEPT !.insights = insights,
                           !.sources = IF @ = <<>>
                                       THEN <<Source("u1", "title", {}, "web")>>
                                       ELSE @],
               next_action.action)

(* enhanced: the rest of a loop iteration after _execute_action:           *)
(* _update_context, the validation of every fifth iteration, add_action    *)
after_action(ctx, insights, passed) ==
    LET updated == [ctx EXCEPT !.insights = insights]
        validated == IF ctx.goal.enable_validation /\ iteration % 5 = 0
                     THEN _validate_research_content(updated, passed)
                     ELSE updated
    IN add_action(validated, next_action.action)

(* enhanced: _execute_task up to its first await: the task is running *)
ExecuteTaskStart ==
    /\ pc = "execute" /\ agent = "enhanced"
    /\ next_action.action = "execute_task"
    /\ context' = [context EXCEPT
                      !.task_graph.tasks[next_action.task].status = "running"]
    /\ pc' = "running"
    /\ UNCHANGED <<planner, store, agent, iteration, next_action, ret>>

(* enhanced: the tool of the running task answers; _execute_task records   *)
(* completed or failed, and the iteration is finished                      *)
ExecuteTaskEnd ==
    /\ pc = "running"
    /\ LET i == next_action.task
           task == context.task_graph.tasks[i]
       IN \E o \in task_outcomes(context, task), passed \in BOOLEAN,
             accessible \in SUBSET summarised(context) :
            LET checked ==
                    IF task.tool = "validate_source"
                    THEN [k \in 1..Len(context.sources) |->
                            IF context.sources[k].url = "" THEN context.sources[k]
                            ELSE [context.sources[k] EXCEPT !.validation =
                                    IF k \in accessible THEN "accessible"
                                    ELSE "not accessible"]]
                    ELSE context.sources
                executed == [context EXCEPT
                                !.task_graph.tasks[i].status = o.status,
                                !.task_graph.tasks[i].error = o.error,
                                !.sources = checked]
            IN /\ context' = after_action(executed, executed.insights, passed)
               /\ store' = save_run_validation(
                               store, executed,
                               executed.goal.enable_validation /\ iteration % 5 = 0,
                               passed)
    /\ pc' = "loop"
    /\ UNCHANGED <<planner, agent, iteration, next_action, ret>>

(* enhanced: synthesize_current_findings runs _synthesize_insights; an     *)
(* exception of the LLM client is not caught on this path                  *)
SynthesizeInsights ==
    /\ pc = "execute" /\ agent = "enhanced"
    /\ next_action.action = "synthesize_current_findings"
    /\ \/ /\ summarised(context) # {}
          /\ pc' = "raised"
          /\ UNCHANGED <<context, store>>
       \/ \E counts \in theme_counts(Cardinality(summarised(context))),
             passed \in BOOLEAN :
            /\ context' = after_action(context, [key_themes |-> counts], passed)
            /\ store' = save_run_validation(
                            store, context,
                            context.goal.enable_validation /\ iteration % 5 = 0,
                            passed)
            /\ pc' = "loop"
    /\ UNCHANGED <<planner, agent, iteration, next_action, ret>>

(* after the loop: final validation (enhanced), the report, the result *)
Finish ==
    /\ pc = "finish"
    /\ \E passed \in BOOLEAN :
         LET final == IF agent = "enhanced" /\ context.goal.enable_validation
                      THEN _final_validation(context, passed)
                      ELSE context
             r == IF agent = "legacy" THEN _is_research_complete(final)
                  ELSE [context |-> final,
                        value |-> _is_research_complete_enhanced(final)]
         IN /\ context' = r.context
            /\ ret' = [research_complete |-> r.value, iterations |-> iteration,
                       quality_score |-> r.context.quality_score]
            /\ store' = save_run_validation(
                            store, context,
                            /\ agent = "enhanced"
                            /\ context.goal.enable_validation
                            /\ context.validation_results = None,
                            passed)
    /\ pc' = "done"
    /\ UNCHANGED <<planner, agent, iteration, next_action>>

Next ==
    \/ Start
    \/ LoopTest
    \/ Decide
    \/ DiscoverSources
    \/ FetchContent
    \/ ImproveQuality
    \/ FillGaps
    \/ SynthesizeFindings
    \/ ExecuteTaskStart
    \/ ExecuteTaskEnd
    \/ SynthesizeInsights
    \/ Finish

Spec == Init /\ [][Next]_vars

----------------------------------------------------------------------------
(* get_ready_tasks on its own: any graph of at most MaxTasks tasks with    *)
(* distinct ids, any statuses, dependencies on any id (GHOST names no      *)
(* task)                                                                   *)

GraphIds == [i \in 1..MaxTasks |-> <<"T", i, 0>>]

Ghost == TaskId("GHOST")

(* the dependency lists of the graphs tried: at most MaxDeps distinct ids, *)
(* each of a task of the graph or GHOST, listed in declaration order       *)
DepLists(n) ==
    LET ids == [i \in 1..(n + 1) |-> IF i <= n THEN GraphIds[i] ELSE Ghost]
    IN {[k \in 1..Len(picked) |-> ids[picked[k]]] :
            picked \in {q \in SeqsUpTo(1..(n + 1), MaxDeps) :
                            \A k \in 1..(Len(q) - 1) : q[k] < q[k + 1]}}

Graph(n, deps, statuses) ==
    ResearchGraph([i \in 1..n |->
        [Task(GraphIds[i], "web_search", deps[i]) EXCEPT !.status = statuses[i]]])

DefaultGoal == ResearchGoal(5, 15, 6, DefaultPerspectives, TRUE)

InitReady ==
    /\ agent = "enhanced"
    /\ \E n \in 0..MaxTasks :
       \E deps \in [1..n -> DepLists(n)], statuses \in [1..n -> TaskStatuses] :
          context = [ResearchContext(DefaultGoal) EXCEPT
                        !.task_graph = Graph(n, deps, statuses)]
    /\ pc = "call"
    /\ iteration = 0
    /\ next_action = Action("none")
    /\ ret = <<>>
    /\ planner = planning_templates
    /\ store = {}

GetReadyTasks ==
    /\ pc = "call"
    /\ ret' = get_ready_tasks(context.task_graph)
    /\ pc' = "returned"
    /\ UNCHANGED <<planner, store, agent, context, iteration, next_action>>

NextReady == GetReadyTasks

SpecReady == InitReady /\ [][NextReady]_vars

(* C1: get_ready_tasks returns exactly the pending tasks whose every       *)
(* depends_on id names a task of the graph that is completed; a task with  *)
(* a dependency id that names no task is never returned.                   *)
ReadinessCorrect ==
    pc = "returned" =>
        LET tasks == context.task_graph.tasks
        IN /\ Range(ret) =
                {i \in 1..Len(tasks) :
                    /\ tasks[i].status = "pending"
                    /\ \A d \in Range(tasks[i].depends_on) :
                          \E j \in 1..Len(tasks) :
                              tasks[j].id = d /\ tasks[j].status = "completed"}
           /\ \A i \in Range(ret) : Ghost \notin Range(tasks[i].depends_on)
           /\ Cardinality(Range(ret)) = Len(ret)

(* a call that returns a task and leaves out a pending task whose only     *)
(* unmet dependency is the dangling one                                    *)
ReadinessWitness ==
    /\ pc = "returned"
    /\ ret # <<>>
    /\ LET tasks == context.task_graph.tasks
       IN \E i \in 1..Len(tasks) :
            /\ tasks[i].status = "pending"
            /\ i \notin Range(ret)
            /\ Ghost \in Range(tasks[i].depends_on)
            /\ \A d \in Range(tasks[i].depends_on) :
                  d = Ghost \/ \E j \in 1..Len(tasks) :
                      tasks[j].id = d /\ tasks[j].status = "completed"

----------------------------------------------------------------------------
(* Properties of the runs (Spec)                                           *)

graph_tasks == context.task_graph.tasks

(* C2: a task's status only moves pending -> running -> completed or       *)
(* failed; completed and failed are terminal, so no task runs twice; no    *)
(* task leaves its graph.                                                  *)
TaskLifecycle ==
    [][/\ Len(graph_tasks') >= Len(graph_tasks)
       /\ \A i \in 1..Len(graph_tasks) :
            /\ graph_tasks'[i].id = graph_tasks[i].id
            /\ \/ graph_tasks'[i].status = graph_tasks[i].status
               \/ /\ graph_tasks[i].status = "pending"
                  /\ graph_tasks'[i].status = "running"
               \/ /\ graph_tasks[i].status = "running"
                  /\ graph_tasks'[i].status \in {"completed", "failed"}]_vars

(* a run that has ended with a completed task, a failed task and a task    *)
(* that never left pending                                                 *)
TaskLifecycleWitness ==
    /\ pc = "done"
    /\ \E i, j, k \in 1..Len(graph_tasks) :
          /\ graph_tasks[i].status = "completed"
          /\ graph_tasks[j].status = "failed"
          /\ graph_tasks[k].status = "pending"

(* C3: in a run of the legacy agent no action name occurs more than        *)
(* max_same_action_attempts times in a row in action_history, and once     *)
(* the last max_same_action_attempts entries are the same action the next  *)
(* decision is another action (or complete).                               *)
LegacyLoopGuard ==
    agent = "legacy" =>
        LET h == context.action_history
            N == context.max_same_action_attempts
        IN /\ \A i \in 1..(Len(h) - N) :
                \E k \in 1..N : h[i + k] # h[i]
           /\ (pc = "execute" /\ Len(h) >= N
                 /\ \A k \in 1..N : h[Len(h) - N + k] = h[Len(h)])
              => next_action.action # h[Len(h)]

(* the same action chosen three times in a row and a different one chosen  *)
(* next                                                                    *)
LegacyLoopGuardWitness ==
    /\ agent = "legacy"
    /\ pc = "execute"
    /\ LET h == context.action_history
       IN /\ Len(h) >= 3
          /\ h[Len(h)] = h[Len(h) - 1]
          /\ h[Len(h)] = h[Len(h) - 2]
          /\ next_action.action # h[Len(h)]

(* C7: every run makes at most max_iterations iterations and returns a     *)
(* result whose iterations value is at most that cap.                      *)
RunReturnsWithinCap ==
    /\ iteration <= max_iterations
    /\ pc # "raised"
    /\ (pc = "done" => ret.iterations <= max_iterations)

----------------------------------------------------------------------------
(* The loop of the enhanced agent entered with any context: a plan of at   *)
(* most MaxPlanTasks pending tasks with any tools, each depending on any   *)
(* of the tasks declared before it, and sources already collected          *)

Tools == {"web_search", "validate_source", "synthesize_research", "get_pdf"}

(* the lists of ids of the tasks at the positions in `earlier` *)
IdList(earlier) ==
    LET picked == SelectSeq([i \in 1..MaxPlanTasks + 1 |-> i],
                            LAMBDA i : i \in earlier)
    IN [k \in 1..Len(picked) |-> GraphIds[picked[k]]]

Plan(n, tools, deps) ==
    ResearchGraph([i \in 1..n |-> Task(GraphIds[i], tools[i], IdList(deps[i]))])

(* the contexts the loop is entered with: nothing collected and nothing   *)
(* required, or two sources collected and a required perspective missing   *)
EnteredWith ==
    { [goal |-> ResearchGoal(0, 15, 6, <<>>, TRUE), sources |-> <<>>],
      [goal |-> ResearchGoal(0, 15, 6, <<"academic", "evangelical">>, TRUE),
       sources |-> << [Source("u1", "t1", {"evangelical"}, None) EXCEPT
                          !.perspective = "academic"],
                      Source("", "t4", {"orthodox"}, None) >>] }

InitExec ==
    /\ agent = "enhanced"
    /\ \E n \in 0..MaxPlanTasks, entered \in EnteredWith :
       \E tools \in [1..n -> Tools],
          deps \in [1..n -> SUBSET (1..MaxPlanTasks)] :
          /\ \A i \in 1..n : \A j \in deps[i] : j < i
          /\ context = [ResearchContext(entered.goal) EXCEPT
                           !.task_graph = Plan(n, tools, deps),
                           !.sources = entered.sources]
    /\ pc = "loop"
    /\ iteration = 0
    /\ next_action = Action("none")
    /\ ret = NoResult
    /\ planner = planning_templates
    /\ store = {}

NextExec ==
    \/ LoopTest
    \/ Decide
    \/ ExecuteTaskStart
    \/ ExecuteTaskEnd
    \/ SynthesizeInsights
    \/ Finish

SpecExec == InitExec /\ [][NextExec]_vars

depends_on_task(tasks, i, j) == tasks[j].id \in Range(tasks[i].depends_on)

(* the tasks that depend, directly or through other tasks, on one of S *)
RECURSIVE Dependents(_, _)
Dependents(tasks, S) ==
    LET more == S \cup {i \in 1..Len(tasks) :
                           \E j \in S : depends_on_task(tasks, i, j)}
    IN IF more = S THEN S ELSE Dependents(tasks, more)

FailedTasks == {i \in 1..Len(graph_tasks) : graph_tasks[i].status = "failed"}

BlockedTasks ==
    Dependents(graph_tasks,
               {i \in 1..Len(graph_tasks) :
                   \E j \in FailedTasks : depends_on_task(graph_tasks, i, j)})

(* C8: a task whose execution raises, or whose tool is unknown, ends       *)
(* failed with a non-empty error; the exception does not reach the loop,   *)
(* which goes on; every task that depends on a failed task, directly or    *)
(* transitively, stays pending.                                            *)
FailedTaskBlocksDependents ==
    /\ [](\A i \in FailedTasks :
            graph_tasks[i].error # None /\ graph_tasks[i].error # "")
    /\ [](\A i \in BlockedTasks : graph_tasks[i].status = "pending")
    /\ [][pc = "running" =>
            /\ pc' = "loop"
            /\ graph_tasks'[next_action.task].status \in {"completed", "failed"}
            /\ (graph_tasks'[next_action.task].status = "failed"
                  <=> (graph_tasks[next_action.task].tool \notin
                          {"web_search", "validate_source", "synthesize_research"}
                       \/ graph_tasks'[next_action.task].error = LLMError))]_vars

(* a task failed by an exception in the first iteration, the loop went on  *)
(* to a second one and the run returned, the task's dependent still pending *)
FailedTaskWitness ==
    /\ pc = "done"
    /\ ret.iterations >= 2
    /\ \E i \in FailedTasks :
          /\ graph_tasks[i].error = LLMError
          /\ \E j \in BlockedTasks : depends_on_task(graph_tasks, j, i)

----------------------------------------------------------------------------
(* _decide_next_action and _is_research_complete on their own, called on   *)
(* any context: of the legacy agent (no task graph), or of the enhanced    *)
(* agent with a graph of at most MaxPlanTasks tasks none of which is       *)
(* running, or with no graph when validation is disabled                   *)

PolicyGoals ==
    { ResearchGoal(2, 15, 6, DefaultPerspectives, TRUE),
      ResearchGoal(0, 15, 3, <<>>, TRUE),
      ResearchGoal(2, 15, 3, <<"academic", "evangelical">>, TRUE) }

CatalogueSource(url) == CHOOSE c \in Catalogue : c.url = url

PolicySources ==
    { <<>>,
      << CatalogueSource("u1") >>,
      << CatalogueSource("u1"), CatalogueSource("u2"), CatalogueSource("u3") >> }

PolicyThemes ==
    { NoThemes, [t \in InsightThemes |-> 0], [t \in InsightThemes |-> 2] }

PolicyHistories ==
    { <<>>,
      <<"execute_task", "execute_task", "execute_task">>,
      <<"execute_task", "synthesize_current_findings",
        "synthesize_current_findings", "synthesize_current_findings">>,
      <<"discover_sources", "discover_sources", "discover_sources">> }

(* histories only the legacy loop writes *)
LegacyHistories ==
    { <<"discover_sources", "improve_quality">>,
      <<"improve_quality", "improve_quality", "improve_quality">>,
      <<"discover_sources", "fill_gaps", "fill_gaps", "fill_gaps">> }

PolicyCriteria ==
    { <<>>,
      <<"sufficient_sources_found", "quality_score_met", "citations_validated">> }

(* the graphs a decision can meet: each task pending, completed or failed, *)
(* depending on nothing or on the task declared before it                  *)
PolicyGraphs ==
    {NoGraph} \cup
    UNION { { ResearchGraph(
                [i \in 1..n |->
                    [Task(GraphIds[i], "web_search",
                          IF i \in chained THEN <<GraphIds[i - 1]>> ELSE <<>>)
                     EXCEPT !.status = statuses[i]]]) :
              statuses \in [1..n -> {"pending", "completed", "failed"}],
              chained \in SUBSET (2..n) } :
            n \in 0..MaxPlanTasks }

InitPolicy ==
    /\ agent \in {"legacy", "enhanced"}
    /\ \E goal \in PolicyGoals, sources \in PolicySources,
          themes \in PolicyThemes,
          history \in PolicyHistories \cup LegacyHistories,
          criteria \in PolicyCriteria, graph \in PolicyGraphs,
          quality \in {3, 4, 6}, failed \in {0, 4, 5},
          focus \in {"initial_discovery", "content_analysis"} :
          /\ agent = "legacy" => graph = NoGraph
          /\ agent = "enhanced" =>
                /\ history \in PolicyHistories
                /\ focus = "initial_discovery"
                /\ quality # 4
          /\ context = [ResearchContext(
                            [goal EXCEPT !.enable_validation = ~graph.is_none])
                        EXCEPT !.sources = sources,
                               !.insights = [key_themes |-> themes],
                               !.action_history = history,
                               !.completed_criteria = criteria,
                               !.task_graph = graph,
                               !.quality_score = quality,
                               !.failed_attempts = failed,
                               !.current_focus = focus]
    /\ pc = "policy"
    /\ iteration = 0
    /\ next_action = Action("none")
    /\ ret = NoResult
    /\ planner = planning_templates
    /\ store = {}

(* next_action = await self._decide_next_action(context) *)
CallDecide ==
    /\ pc = "policy"
    /\ LET d == IF agent = "legacy"
                THEN [context |-> _decide_next_action(context).context,
                      action |-> _decide_next_action(context).action,
                      raised |-> FALSE]
                ELSE _decide_next_action_enhanced(context, iteration + 1)
       IN /\ context' = d.context
          /\ next_action' = IF d.raised THEN next_action ELSE d.action
          /\ pc' = IF d.raised THEN "raised" ELSE "decided"
    /\ UNCHANGED <<planner, store, agent, iteration, ret>>

(* await self._is_research_complete(context) *)
CallIsComplete ==
    /\ pc = "policy"
    /\ LET r == IF agent = "legacy" THEN _is_research_complete(context)
                ELSE [context |-> context,
                      value |-> _is_research_complete_enhanced(context)]
       IN /\ context' = r.context
          /\ ret' = [NoResult EXCEPT !.research_complete = r.value]
    /\ pc' = "assessed"
    /\ UNCHANGED <<planner, store, agent, iteration, next_action>>

NextPolicy ==
    \/ CallDecide
    \/ CallIsComplete

SpecPolicy == InitPolicy /\ [][NextPolicy]_vars

----------------------------------------------------------------------------
(* Properties of the decision policy and of the completion test            *)
(* (SpecPolicy)                                                            *)

(* the last max_same_action_attempts entries of the history are all `a` *)
repeated(a) ==
    /\ Len(context.action_history) >= context.max_same_action_attempts
    /\ \A k \in 1..Len(context.action_history) :
          k > Len(context.action_history) - context.max_same_action_attempts
             => context.action_history[k] = a

(* the positions of the pending tasks whose dependencies all name          *)
(* completed tasks                                                         *)
ReadySet(tasks) ==
    {i \in 1..Len(tasks) :
        /\ tasks[i].status = "pending"
        /\ \A d \in Range(tasks[i].depends_on) :
              \E j \in 1..Len(tasks) :
                  tasks[j].id = d /\ tasks[j].status = "completed"}

(* the required perspectives whose keyword occurs in some source's         *)
(* description                                                             *)
perspectives_present(ctx) ==
    {p \in Range(ctx.goal.required_perspectives) :
        \E i \in 1..Len(ctx.sources) : p \in ctx.sources[i].description}

(* how many of the five standard criteria hold of the context *)
criteria_holding(ctx) ==
    Cardinality(
        (IF Len(ctx.sources) >= ctx.goal.min_sources THEN {1} ELSE {})
        \cup (IF Cardinality(perspectives_present(ctx)) >= 2 THEN {2} ELSE {})
        \cup (IF ctx.quality_score >= ctx.goal.quality_threshold
              THEN {3} ELSE {})
        \cup (IF Cardinality(DOMAIN ctx.insights.key_themes) >= 3
              THEN {4} ELSE {})
        \cup (IF Len(ctx.sources) >= 3 THEN {5} ELSE {}))

(* C4: when the last max_same_action_attempts entries of the history are   *)
(* all execute_task, the enhanced _decide_next_action returns an action    *)
(* other than execute_task, even if the graph has ready tasks.             *)
EnhancedLoopGuard ==
    (pc = "decided" /\ agent = "enhanced" /\ repeated("execute_task"))
        => next_action.action # "execute_task"

(* C4 as amended: after max_same_action_attempts execute_task entries the  *)
(* enhanced _decide_next_action returns an action other than execute_task  *)
(* exactly when failed_attempts >= 5 or the graph, with the tasks it has   *)
(* just appended, has no ready task; otherwise it returns execute_task     *)
(* again. The history only guards synthesize_current_findings, which is    *)
(* not returned after max_same_action_attempts of it.                      *)
EnhancedLoopGuardAmended ==
    (pc = "decided" /\ agent = "enhanced") =>
        /\ repeated("execute_task") =>
              (next_action.action = "execute_task"
                 <=> (context.failed_attempts < 5
                      /\ ReadySet(graph_tasks) # {}))
        /\ repeated("synthesize_current_findings") =>
              next_action.action # "synthesize_current_findings"

(* a fourth execute_task in a row is decided *)
EnhancedLoopGuardWitness ==
    /\ pc = "decided" /\ agent = "enhanced"
    /\ repeated("execute_task")
    /\ next_action.action = "execute_task"

(* C5: with failed_attempts >= 5, _decide_next_action of either agent      *)
(* returns complete with reason max_attempts_reached, whatever the ready   *)
(* tasks, the sources, the quality score and the history are.              *)
EscapeHatch ==
    (pc \in {"decided", "raised"} /\ context.failed_attempts >= 5)
        => (pc = "decided" /\ next_action = Complete("max_attempts_reached"))

(* the enhanced policy completes although a task is ready and sources are  *)
(* missing                                                                 *)
EscapeHatchWitness ==
    /\ pc = "decided" /\ agent = "enhanced"
    /\ context.failed_attempts = 5
    /\ ReadySet(graph_tasks) # {}
    /\ Len(context.sources) < context.goal.min_sources
    /\ next_action = Complete("max_attempts_reached")

(* C6: with failed_attempts < 5 and a ready task in the graph, the         *)
(* enhanced _decide_next_action returns execute_task for the first ready   *)
(* task in declaration order and leaves the graph as it is, whatever the   *)
(* sources, insights, quality score and history are; any other action,     *)
(* and any task appended for a gap, is chosen only when no task is ready.  *)
GraphPriority ==
    [][(/\ pc = "policy" /\ pc' # "assessed"
        /\ agent = "enhanced"
        /\ context.failed_attempts < 5
        /\ ReadySet(graph_tasks) # {})
       => /\ pc' = "decided"
          /\ next_action'.action = "execute_task"
          /\ next_action'.task \in ReadySet(graph_tasks)
          /\ \A i \in ReadySet(graph_tasks) : next_action'.task <= i
          /\ context' = context]_vars

(* two tasks are ready, the history holds three execute_task, and the      *)
(* first task is chosen                                                    *)
GraphPriorityWitness ==
    /\ pc = "decided" /\ agent = "enhanced"
    /\ context.failed_attempts < 5
    /\ Cardinality(ReadySet(graph_tasks)) >= 2
    /\ context.sources = <<>>
    /\ next_action = ExecuteTask(1)

(* C9: _is_research_complete returns true exactly when failed_attempts is  *)
(* at least 5, or the sources reach goal.min_sources, the quality score    *)
(* reaches goal.quality_threshold and at least 3 of the 5 standard         *)
(* criteria hold of the current state.                                     *)
IsCompleteAsSpecified ==
    pc = "assessed" =>
        (ret.research_complete
           <=> \/ context.failed_attempts >= 5
               \/ /\ Len(context.sources) >= context.goal.min_sources
                  /\ context.quality_score >= context.goal.quality_threshold
                  /\ criteria_holding(context) >= 3)

(* C10: the legacy _is_research_complete counts the criterion              *)
(* multiple_perspectives_represented as satisfied exactly when at least 2  *)
(* of the goal's required perspectives are present among the sources.      *)
PerspectiveCriterion ==
    (pc = "assessed" /\ agent = "legacy") =>
        ("multiple_perspectives_represented" \in Range(context.completed_criteria)
           <=> Cardinality(perspectives_present(context)) >= 2)

(* the standard criteria that hold of the context, by name *)
standard_criteria(ctx) ==
    (IF Len(ctx.sources) >= ctx.goal.min_sources
     THEN {"sufficient_sources_found"} ELSE {})
    \cup (IF Cardinality(perspectives_present(ctx)) >= 2
          THEN {"multiple_perspectives_represented"} ELSE {})
    \cup (IF ctx.quality_score >= ctx.goal.quality_threshold
          THEN {"quality_score_met"} ELSE {})
    \cup (IF Cardinality(DOMAIN ctx.insights.key_themes) >= 3
          THEN {"key_themes_identified"} ELSE {})
    \cup (IF Len(ctx.sources) >= 3 THEN {"citations_validated"} ELSE {})

(* _is_research_complete of the agent at hand, the value only *)
is_complete_value(ctx) ==
    IF agent = "legacy" THEN _is_research_complete(ctx).value
    ELSE _is_research_complete_enhanced(ctx)

(* C11: after every call of _is_research_complete, of either agent,        *)
(* completed_criteria holds exactly the standard criteria that hold of     *)
(* the current sources, insights and quality_score, and the value returned *)
(* is the one the call gives when completed_criteria was empty before.     *)
CompletionRederived ==
    pc = "assessed" =>
        /\ Range(context.completed_criteria) = standard_criteria(context)
        /\ ret.research_complete
              = is_complete_value([context EXCEPT !.completed_criteria = <<>>])

----------------------------------------------------------------------------
(* create_plan on its own: at most MaxPlans calls on one TaskPlanner, each *)
(* with any topic; ret is the list of the graphs returned so far           *)

Topics ==
    { <<>>, <<"g">>, <<"g", " ", "1">>, <<"p", ":", " ">>, <<"{", "x", "}">> }

PlanTypes == {"biblical_exegesis", "sermon"}

InitPlan ==
    /\ agent = "enhanced"
    /\ context = ResearchContext(DefaultGoal)
    /\ pc = "plan"
    /\ iteration = 0
    /\ next_action = Action("none")
    /\ ret = <<>>
    /\ planner = planning_templates
    /\ store = {}

(* graph = planner.create_plan(topic, plan_type); an unknown plan_type     *)
(* falls back to biblical_exegesis                                         *)
CreatePlan ==
    /\ pc \in {"plan", "plan_raised"}
    /\ Len(ret) < MaxPlans
    /\ \E topic \in Topics, plan_type \in PlanTypes :
         LET r == create_plan_on(planner, topic)
         IN /\ planner' = r.planner
            /\ ret' = IF r.raised THEN ret ELSE Append(ret, r.graph)
            /\ pc' = IF r.raised THEN "plan_raised" ELSE "plan"
    /\ UNCHANGED <<store, agent, context, iteration, next_action>>

NextPlan == CreatePlan

SpecPlan == InitPlan /\ [][NextPlan]_vars

(* the args of a task of a returned graph, as the planner's state has them *)
task_args(task) == planner[task.args]

(* the value of the argument `key` in an args dict *)
arg_value(args, key) ==
    LET k == CHOOSE k \in 1..Len(args) : args[k].key = key
    IN args[k].value

(* C12: after any sequence of create_plan calls on one TaskPlanner, every  *)
(* graph returned so far has its own topic in its task arguments           *)
(* (SEARCH_PRIMARY's query starts with the topic, CRITICAL_ANALYSIS's      *)
(* topic is the topic, FINAL_REPORT's filename is safe_topic + ".md"),     *)
(* whatever the topics of the other calls were, and no call raises.        *)
PlanHasOwnTopic ==
    /\ pc # "plan_raised"
    /\ \A g \in 1..Len(ret) :
         LET tasks == ret[g].tasks
             topic == ret[g].topic
         IN /\ arg_value(task_args(tasks[1]), "query")
                  = topic \o <<" scholarly exegesis 2020..2025">>
            /\ arg_value(task_args(tasks[5]), "topic") = topic
            /\ arg_value(task_args(tasks[7]), "filename")
                  = safe_topic(topic) \o <<".md">>

----------------------------------------------------------------------------
(* validation_tools.py: CitationValidator's validation_results table       *)
(* (id TEXT PRIMARY KEY, graph_id TEXT UNIQUE, validation_data TEXT;       *)
(* created_at is written and never read)                                   *)

(* SELECT validation_data FROM validation_results WHERE id = ?; fetchone() *)
select_by_id(rows, id) == {r \in rows : r.id = id}

EmptyDict == [k \in {} |-> 0]

(* results as detect_hallucinations builds them (risk in hundredths) *)
ValidationResults ==
    { EmptyDict,
      [hallucination_risk |-> py_native(0),
       validation_passed |-> py_native(TRUE),
       recommendations |-> py_native(<<>>)],
      [hallucination_risk |-> py_native(50),
       validation_passed |-> py_native(FALSE),
       recommendations |->
           py_native(<<"Add citations for 1 unsupported claims">>)] }

GraphIdArgs == {"", "g1", "g2", "unknown"}

StoreCall(op, graph_id, validation_result) ==
    [op |-> op, graph_id |-> graph_id, validation_result |-> validation_result]

InitStore ==
    /\ agent = "enhanced"
    /\ context = ResearchContext(DefaultGoal)
    /\ pc = "store"
    /\ iteration = 0
    /\ next_action = StoreCall("none", "", EmptyDict)
    /\ ret = None
    /\ planner = planning_templates
    /\ store = {}

(* save_validation_result(graph_id, validation_result); the database may   *)
(* fail, and then the transaction is rolled back and the error re-raised   *)
SaveValidationResult ==
    /\ pc \in {"store", "saved", "save_raised", "loaded", "load_failed",
               "load_raised"}
    /\ \E graph_id \in GraphIdArgs, result \in ValidationResults,
          db_ok \in BOOLEAN :
         /\ next_action' = StoreCall("save", graph_id, result)
         /\ IF graph_id = "" \/ result = EmptyDict \/ ~db_ok
            THEN /\ pc' = "save_raised"
                 /\ UNCHANGED store
            ELSE /\ pc' = "saved"
                 /\ store' = insert_or_replace(
                                 store, validation_row(graph_id, result))
    /\ ret' = None
    /\ UNCHANGED <<planner, agent, context, iteration>>

(* load_validation_result(graph_id): a database error is logged and None   *)
(* is returned                                                             *)
LoadValidationResult ==
    /\ pc \in {"store", "saved", "save_raised", "loaded", "load_failed",
               "load_raised"}
    /\ \E graph_id \in GraphIdArgs, db_ok \in BOOLEAN :
         LET found == select_by_id(store, <<graph_id, "_validation">>)
         IN /\ next_action' = StoreCall("load", graph_id, EmptyDict)
            /\ pc' = IF graph_id = "" THEN "load_raised"
                     ELSE IF ~db_ok THEN "load_failed" ELSE "loaded"
            /\ ret' = IF graph_id = "" \/ ~db_ok \/ found = {} THEN None
                      ELSE json_loads((CHOOSE r \in found : TRUE).validation_data)
    /\ UNCHANGED <<planner, store, agent, context, iteration>>

NextStore ==
    \/ SaveValidationResult
    \/ LoadValidationResult

SpecStore == InitStore /\ [][NextStore]_vars

rows_of(rows, graph_id) == {r \in rows : r.graph_id = graph_id}

(* C13: a save that returns leaves exactly one row for its graph_id, equal *)
(* to the result saved, adds no row for another id and leaves the rows of  *)
(* the other graph ids unchanged; a save that raises changes nothing; no   *)
(* graph_id ever has two rows; and a load answered by the database         *)
(* returns the result stored for the graph_id, or None when it has none.   *)
SaveIsInsertOrReplace ==
    /\ [][/\ pc' = "saved" /\ next_action'.op = "save" =>
               LET g == next_action'.graph_id
               IN /\ \E r \in store' :
                       /\ rows_of(store', g) = {r}
                       /\ json_loads(r.validation_data)
                             = next_action'.validation_result
                  /\ \A h \in GraphIdArgs \ {g} :
                       rows_of(store', h) = rows_of(store, h)
                  /\ {r.graph_id : r \in store'}
                        = {r.graph_id : r \in store} \cup {g}
           /\ pc' # "saved" => store' = store]_vars
    /\ [](\A g \in GraphIdArgs : Cardinality(rows_of(store, g)) <= 1)
    /\ [](pc = "loaded" =>
            \/ /\ rows_of(store, next_action.graph_id) = {}
               /\ ret = None
            \/ \E r \in rows_of(store, next_action.graph_id) :
                  ret = json_loads(r.validation_data))

(* a second result saved under g1 while g2 keeps its row, then loaded *)
SaveIsInsertOrReplaceWitness ==
    /\ pc = "loaded"
    /\ next_action.graph_id = "g1"
    /\ rows_of(store, "g1") # {}
    /\ ret.hallucination_risk = py_native(50)
    /\ Cardinality(store) = 2
    /\ \E r \in rows_of(store, "g2") :
          json_loads(r.validation_data).hallucination_risk = py_native(0)

----------------------------------------------------------------------------
(* validation_tools.py: detect_hallucinations and the hallucination_check  *)
(* tool                                                                    *)

MaxClaims == 2

MaxCitations == 2

(* Python floats, kept as exact fractions in lowest terms *)
RECURSIVE gcd(_, _)
gcd(a, b) == IF b = 0 THEN a ELSE gcd(b, a % b)

float(n, d) ==
    LET m == IF n < 0 THEN -n ELSE n
        g == gcd(m, d)
    IN [num |-> n \div g, den |-> d \div g]

float_add(x, y) == float(x.num * y.den + y.num * x.den, x.den * y.den)

float_mul(x, y) == float(x.num * y.num, x.den * y.den)

float_lt(x, y) == x.num * y.den < y.num * x.den

float_max(x, y) == IF float_lt(x, y) THEN y ELSE x

float_min(x, y) == IF float_lt(y, x) THEN y ELSE x

(* d.get(key, default) *)
dict_get(d, key, default) == IF key \in DOMAIN d THEN d[key] ELSE default

max(a, b) == IF a >= b THEN a ELSE b

(* What the patterns of extract_citations and _extract_claims find in a    *)
(* content: the sentences that match a factual pattern, each named by the  *)
(* offset where it stands, and the citation matches with their start       *)
(* offsets.  matched says what validation will find: the URL answers 200,  *)
(* or two words of the citation are in the title of a source.              *)
ClaimOffsets == {(k - 1) * 1000 : k \in 1..MaxClaims}

CitationOffsets == {100, 1100}

CitationMatches ==
    [type : {"citation", "url"}, start : CitationOffsets, matched : BOOLEAN]

(* extract_citations lists the matches of the three citation patterns,     *)
(* then the URLs in the order of the text                                  *)
CitationLists ==
    {c \in UNION {[1..n -> CitationMatches] : n \in 0..MaxCitations} :
        \A j, k \in 1..Len(c) :
            j < k => \/ c[j].type = "citation"
                     \/ c[k].type = "url" /\ c[j].start < c[k].start}

Contents ==
    [type : {"str"},
     len : {1000 * max(MaxClaims, 2)},
     sentences : SUBSET ClaimOffsets,
     citations : CitationLists]

(* _extract_claims: the dicts carry text, type and requires_citation *)
extract_claims(text) ==
    {[text |-> at, type |-> "factual_claim", requires_citation |-> TRUE] :
        at \in text.sentences}

(* extract_citations *)
extract_citations(text) ==
    [k \in 1..Len(text.citations) |->
        [type |-> text.citations[k].type,
         text |-> text.citations[k],
         start |-> text.citations[k].start,
         validated |-> FALSE]]

(* the loop of detect_hallucinations over the citations: validate_url for  *)
(* a url, validate_citation_against_sources for the others (a title that   *)
(* matches has all its words in the citation: confidence 1.0, in tenths);  *)
(* the validation merged into a citation holds that citation               *)
validate(citation) ==
    IF citation.type = "url"
    THEN [citation EXCEPT !.validated = citation.text.matched]
         @@ [confidence |-> 10, circular |-> FALSE]
    ELSE [citation EXCEPT !.validated = citation.text.matched]
         @@ [confidence |-> IF citation.text.matched THEN 10 ELSE 0,
             circular |-> TRUE]

(* _claim_has_citation_support *)
claim_has_citation_support(claim, citations) ==
    \E k \in 1..Len(citations) :
        /\ dict_get(citations[k], "validated", FALSE)
        /\ LET citation_pos == dict_get(citations[k], "start", 0)
               claim_pos == dict_get(claim, "position", 0)
               d == citation_pos - claim_pos
           IN (IF d < 0 THEN -d ELSE d) < 500

(* the risk without the floor of 0 under the coverage term *)
calculate_hallucination_risk_unfloored(citations, unsupported_claims, total_claims) ==
    IF total_claims = 0 THEN float(0, 1)
    ELSE LET unsupported_ratio ==
                 float(Cardinality(unsupported_claims), max(total_claims, 1))
             invalid_citations ==
                 {k \in 1..Len(citations) :
                     ~dict_get(citations[k], "validated", FALSE)}
             citation_invalid_ratio ==
                 float(Cardinality(invalid_citations), max(Len(citations), 1))
             citation_coverage == float(Len(citations), max(total_claims, 1))
             risk == float_add(
                         float_add(float_mul(unsupported_ratio, float(5, 10)),
                                   float_mul(citation_invalid_ratio, float(3, 10))),
                         float_mul(float_add(float(1, 1),
                                             float_mul(float(-1, 1), citation_coverage)),
                                   float(2, 10)))
         IN float_min(risk, float(1, 1))

(* _calculate_hallucination_risk *)
calculate_hallucination_risk(citations, unsupported_claims, total_claims) ==
    IF total_claims = 0 THEN float(0, 1)
    ELSE LET unsupported_ratio ==
                 float(Cardinality(unsupported_claims), max(total_claims, 1))
             invalid_citations ==
                 {k \in 1..Len(citations) :
                     ~dict_get(citations[k], "validated", FALSE)}
             citation_invalid_ratio ==
                 float(Cardinality(invalid_citations), max(Len(citations), 1))
             citation_coverage == float(Len(citations), max(total_claims, 1))
             risk == float_add(
                         float_add(float_mul(unsupported_ratio, float(5, 10)),
                                   float_mul(citation_invalid_ratio, float(3, 10))),
                         float_mul(float_max(
                                       float_add(float(1, 1),
                                                 float_mul(float(-1, 1), citation_coverage)),
                                       float(0, 1)),
                                   float(2, 10)))
         IN float_min(risk, float(1, 1))

(* _generate_recommendations: the count behind each of the three texts,    *)
(* 0 when the text is not given                                            *)
generate_recommendations(citations, unsupported_claims) ==
    [fix_invalid_urls |->
        Cardinality({k \in 1..Len(citations) :
            citations[k].type = "url" /\ ~citations[k].validated}),
     add_citations |-> Cardinality(unsupported_claims),
     improve_matching |->
        Cardinality({k \in 1..Len(citations) : citations[k].confidence < 5}),
     manual_review |-> FALSE]

(* detect_hallucinations(content, sources) *)
detect_hallucinations(content) ==
    LET claims == extract_claims(content)
        citations == extract_citations(content)
        validated_citations == [k \in 1..Len(citations) |-> validate(citations[k])]
        unsupported_claims ==
            {claim \in claims :
                ~claim_has_citation_support(claim, validated_citations)}
        risk_score == calculate_hallucination_risk(
                          validated_citations, unsupported_claims, Cardinality(claims))
    IN [content |-> content,
        citations |-> validated_citations,
        claims |-> claims,
        unsupported_claims |-> unsupported_claims,
        hallucination_risk |-> risk_score,
        validation_passed |-> float_lt(risk_score, float(3, 10)),
        recommendations |->
            generate_recommendations(validated_citations, unsupported_claims)]

(* the values the tool is called with: args is a dict or not, content_from *)
(* a str or not, citations_from a list (of dicts or not) or not, graph_id  *)
(* given or not                                                            *)
py_value(type, value) == [type |-> type, value |-> value]

OtherContents ==
    { [type |-> "int", len |-> 0, sentences |-> {}, citations |-> <<>>],
      [type |-> "str", len |-> 1024 * 1024 + 1, sentences |-> {},
       citations |-> <<>>] }

SourcesArgs == {"list[dict]", "list[str]", "tuple"}

CheckArgs ==
    { py_value("NoneType", EmptyDict), py_value("list", EmptyDict),
      py_value("dict", EmptyDict) }
    \cup { py_value("dict", [content_from |-> c, citations_from |-> s]) :
              c \in Contents \cup OtherContents, s \in SourcesArgs }
    \cup { py_value("dict", [content_from |-> c, citations_from |-> "list[dict]",
                             graph_id |-> "g1"]) : c \in Contents }

(* the body of hallucination_check up to the result of                     *)
(* detect_hallucinations: the ValueErrors of the input validation, and the *)
(* AttributeError of source.get when a citation is matched against a       *)
(* source that is not a dict                                               *)
check_raises(args) ==
    \/ args.type # "dict"
    \/ args.value = EmptyDict
    \/ args.value.content_from.type # "str"
    \/ args.value.citations_from \notin {"list[dict]", "list[str]"}
    \/ args.value.content_from.len > 1024 * 1024
    \/ /\ args.value.citations_from = "list[str]"
       /\ \E k \in 1..Len(args.value.content_from.citations) :
             args.value.content_from.citations[k].type # "url"

(* the fallback with its risk as a percentage *)
fallback_result_percent(args) ==
    [content |-> dict_get(args.value, "content_from",
                          [type |-> "str", len |-> 0, sentences |-> {},
                           citations |-> <<>>]),
     citations |-> <<>>,
     claims |-> {},
     unsupported_claims |-> {},
     hallucination_risk |-> float(50, 1),
     validation_passed |-> FALSE,
     recommendations |->
        [fix_invalid_urls |-> 0, add_citations |-> 0, improve_matching |-> 0,
         manual_review |-> TRUE],
     error |-> TRUE]

(* the result the wrapper builds in its except clause *)
fallback_result(args) ==
    [content |-> dict_get(args.value, "content_from",
                          [type |-> "str", len |-> 0, sentences |-> {},
                           citations |-> <<>>]),
     citations |-> <<>>,
     claims |-> {},
     unsupported_claims |-> {},
     hallucination_risk |-> float(5, 10),
     validation_passed |-> FALSE,
     recommendations |->
        [fix_invalid_urls |-> 0, add_citations |-> 0, improve_matching |-> 0,
         manual_review |-> TRUE],
     error |-> TRUE]

(* json.dumps raises "Circular reference detected" on a result with a      *)
(* citation that validate_citation_against_sources has updated: the        *)
(* validation holds the citation it is merged into                         *)
circular_reference(result) ==
    \E k \in 1..Len(result.citations) : result.citations[k].circular

InitCheck ==
    /\ agent = "enhanced"
    /\ context = ResearchContext(DefaultGoal)
    /\ pc = "idle"
    /\ iteration = 0
    /\ next_action = py_value("NoneType", EmptyDict)
    /\ ret = None
    /\ planner = planning_templates
    /\ store = {}

(* hallucination_check(args) under safe_hallucination_check *)
HallucinationCheck ==
    /\ pc = "idle"
    /\ \E args \in CheckArgs, db_ok \in BOOLEAN :
         /\ next_action' = args
         /\ IF check_raises(args)
            THEN /\ UNCHANGED store
                 /\ IF args.type = "dict"
                    THEN pc' = "checked" /\ ret' = fallback_result(args)
                    ELSE pc' = "check_raised" /\ ret' = None
            ELSE LET result == detect_hallucinations(args.value.content_from)
                     graph_id == dict_get(args.value, "graph_id", "unknown")
                 IN /\ pc' = "checked"
                    /\ ret' = result
                    /\ store' = IF db_ok /\ ~circular_reference(result)
                                THEN insert_or_replace(
                                         store, validation_row(graph_id, to_py(result)))
                                ELSE store
    /\ UNCHANGED <<planner, agent, context, iteration>>

(* _calculate_hallucination_risk called on its own *)
CalculateHallucinationRisk ==
    /\ pc = "idle"
    /\ \E total_claims \in 0..MaxClaims,
          citations \in UNION {[1..n -> [validated : BOOLEAN]] : n \in 0..MaxCitations} :
         \E unsupported \in 0..total_claims :
            /\ next_action' = [citations |-> citations,
                               unsupported_claims |-> 1..unsupported,
                               total_claims |-> total_claims]
            /\ ret' = calculate_hallucination_risk(
                          citations, 1..unsupported, total_claims)
    /\ pc' = "risk"
    /\ UNCHANGED <<planner, store, agent, context, iteration>>

NextCheck ==
    \/ HallucinationCheck
    \/ CalculateHallucinationRisk

SpecCheck == InitCheck /\ [][NextCheck]_vars

(* min(1, 0.5*u/max(n,1) + 0.3*i/max(c,1) + 0.2*max(0, 1 - c/max(n,1)))    *)
(* for n claims, u of them unsupported, c citations, i of them invalid     *)
risk_formula(n, u, c, i) ==
    LET N == max(n, 1)
        C == max(c, 1)
        sum == 5 * u * C + 3 * i * N + 2 * max(N - c, 0) * C
        one == 10 * N * C
    IN float(IF sum < one THEN sum ELSE one, one)

invalid_count(citations) ==
    Cardinality({k \in 1..Len(citations) : ~citations[k].validated})

(* C14: whatever the counts of claims, unsupported claims, citations and   *)
(* invalid citations, zero claims and zero citations included, the risk    *)
(* computed equals min(1, 0.5*unsupported/max(claims,1)                    *)
(* + 0.3*invalid/max(citations,1) + 0.2*max(0, 1 - citations/max(claims,1))). *)
RiskIsWeightedSum ==
    /\ pc = "risk" =>
          ret = risk_formula(next_action.total_claims,
                             Cardinality(next_action.unsupported_claims),
                             Len(next_action.citations),
                             invalid_count(next_action.citations))
    /\ pc = "checked" /\ "error" \notin DOMAIN ret =>
          ret.hallucination_risk
             = risk_formula(Cardinality(ret.claims),
                            Cardinality(ret.unsupported_claims),
                            Len(ret.citations), invalid_count(ret.citations))

(* C14, amended: with at least one claim the risk computed is that         *)
(* weighted sum; with no claim it is 0, whatever the citations.            *)
RiskIsWeightedSumOfClaims ==
    /\ pc = "risk" =>
          ret = IF next_action.total_claims = 0 THEN float(0, 1)
                ELSE risk_formula(next_action.total_claims,
                                  Cardinality(next_action.unsupported_claims),
                                  Len(next_action.citations),
                                  invalid_count(next_action.citations))
    /\ pc = "checked" /\ "error" \notin DOMAIN ret =>
          ret.hallucination_risk
             = IF ret.claims = {} THEN float(0, 1)
               ELSE risk_formula(Cardinality(ret.claims),
                                 Cardinality(ret.unsupported_claims),
                                 Len(ret.citations), invalid_count(ret.citations))

(* one claim, unsupported, under two citations of which one is invalid:    *)
(* 0.5 + 0.15 + 0 *)
RiskIsWeightedSumWitness ==
    /\ pc = "risk"
    /\ next_action.total_claims = 1
    /\ Len(next_action.citations) = 2
    /\ invalid_count(next_action.citations) = 1
    /\ next_action.unsupported_claims = {1}
    /\ ret = float(65, 100)

(* the offset at which the sentence of a claim stands in the content *)
position_in_text(claim) == claim.text

(* C15: in the result of detect_hallucinations a claim is left out of      *)
(* unsupported_claims exactly when some validated citation starts less     *)
(* than 500 characters from the claim's own position in the content.       *)
SupportIsLocal ==
    pc = "checked" /\ "error" \notin DOMAIN ret =>
        \A claim \in ret.claims :
            claim \notin ret.unsupported_claims
               <=> \E k \in 1..Len(ret.citations) :
                      /\ ret.citations[k].validated
                      /\ LET d == ret.citations[k].start - position_in_text(claim)
                         IN (IF d < 0 THEN -d ELSE d) < 500

----------------------------------------------------------------------------
(* the scores of the program: the runs of both agents, the enhanced loop   *)
(* entered with sources, and the validator's tool                          *)

InitScores == Init \/ InitExec \/ InitCheck

NextScores == Next \/ NextCheck

SpecScores == InitScores /\ [][NextScores]_vars

in_unit_interval(x) == ~float_lt(x, float(0, 1)) /\ ~float_lt(float(1, 1), x)

(* C16: in every state of a run quality_score is in [0,1] (tenths 0..10),  *)
(* _assess_quality of the context is in [0,1], and every hallucination     *)
(* risk, computed or of the fallback, is in [0,1].                         *)
ScoresBounded ==
    /\ context.quality_score \in 0..10
    /\ _assess_quality(context) \in 0..10
    /\ pc = "risk" => in_unit_interval(ret)
    /\ pc = "checked" => in_unit_interval(ret.hallucination_risk)

(* an enhanced run that ended with the validation bonus in its score *)
ScoresBoundedWitness ==
    /\ agent = "enhanced"
    /\ pc = "done"
    /\ context.validation_results = "passed"
    /\ context.quality_score >= 1
    /\ ret.quality_score = context.quality_score

----------------------------------------------------------------------------
(* _assess_quality and _is_research_complete called on any small context   *)

MaxAssessed == 5

SourceUrls == <<"u1", "u2", "u3", "u4", "u5", "u6", "u7">>

(* the k-th source of a context: as discovered, or fetched and analysed    *)
(* with one of the two perspectives                                        *)
AssessedSource(k, kind) ==
    LET s == Source(SourceUrls[k], "t", {}, None)
    IN IF kind = 0 THEN s
       ELSE analyse(s, [ok |-> TRUE, content |-> {"academic"},
                        author_perspective |->
                            IF kind = 1 THEN "evangelical" ELSE "progressive",
                        theological_themes |-> {"grace"}])

(* the source lists tried: the analysed sources last, one perspective      *)
(* after the other (neither function reads the order)                      *)
AssessedSources ==
    { [k \in 1..Len(kinds) |-> AssessedSource(k, kinds[k])] :
        kinds \in {c \in UNION {[1..n -> 0..2] : n \in 0..MaxAssessed} :
                      \A j, k \in 1..Len(c) : j < k => c[j] <= c[k]} }

AssessedThemes ==
    { NoThemes,
      [t \in {"historical_context", "scholarly_consensus"} |-> 1],
      [t \in InsightThemes \ {"contemporary_application"} |-> 1] }

AssessedGoals ==
    { ResearchGoal(ms, 15, qt, DefaultPerspectives, TRUE) :
        ms \in {0, 1, 3}, qt \in {0, 6, 10} }

InitQuality ==
    /\ agent \in {"legacy", "enhanced"}
    /\ \E goal \in AssessedGoals, sources \in AssessedSources,
          themes \in AssessedThemes, criteria \in PolicyCriteria,
          quality \in {0, 6}, failed \in {0, 4, 5} :
          /\ agent = "legacy" => criteria = <<>>
          /\ context = [ResearchContext(goal) EXCEPT
                           !.sources = sources,
                           !.insights = [key_themes |-> themes],
                           !.completed_criteria = criteria,
                           !.quality_score = quality,
                           !.failed_attempts = failed]
    /\ pc = "policy"
    /\ iteration = 0
    /\ next_action = Action("none")
    /\ ret = NoResult
    /\ planner = planning_templates
    /\ store = {}

(* await self._assess_quality(context) *)
CallAssessQuality ==
    /\ pc = "policy" /\ agent = "legacy"
    /\ ret' = [NoResult EXCEPT !.quality_score = _assess_quality(context)]
    /\ pc' = "scored"
    /\ UNCHANGED <<planner, store, agent, context, iteration, next_action>>

NextQuality ==
    \/ CallAssessQuality
    \/ CallIsComplete

SpecQuality == InitQuality /\ [][NextQuality]_vars

processed(ctx) == {i \in 1..Len(ctx.sources) : ctx.sources[i].content_processed}

empty_context ==
    /\ context.sources = <<>>
    /\ DOMAIN context.insights.key_themes = {}
    /\ context.failed_attempts < 5

(* C18: on a context without sources and with empty insights, and fewer    *)
(* than 5 failed attempts, _assess_quality returns 0.0 and                 *)
(* _is_research_complete returns False, for every goal.                    *)
EmptyContextScoresNothing ==
    /\ pc = "scored" /\ empty_context => ret.quality_score = 0
    /\ pc = "assessed" /\ empty_context => ~ret.research_complete

(* C18, amended: the same for every goal with min_sources >= 1; with       *)
(* min_sources = 0 _assess_quality returns 0.3.                            *)
EmptyContextScoresNothingAmended ==
    /\ pc = "scored" /\ empty_context =>
          ret.quality_score = IF context.goal.min_sources >= 1 THEN 0 ELSE 3
    /\ pc = "assessed" /\ empty_context /\ context.goal.min_sources >= 1 =>
          ~ret.research_complete

(* an empty context whose quality_score already meets the threshold is     *)
(* found incomplete *)
EmptyContextScoresNothingWitness ==
    /\ pc = "assessed"
    /\ empty_context
    /\ context.goal.min_sources = 1
    /\ context.quality_score >= context.goal.quality_threshold
    /\ context.failed_attempts = 4
    /\ ~ret.research_complete

----------------------------------------------------------------------------
(* C19: no exception escapes conduct_research, whatever the goal and       *)
(* whatever fails among the searches, fetches, URL checks and LLM calls:   *)
(* a run is never left by an exception, and a run that is over has         *)
(* returned its result.                                                    *)
NoExceptionEscapes ==
    pc \in {"start", "loop", "decide", "execute", "running", "finish", "done"}

----------------------------------------------------------------------------
is_fallback(result) ==
    /\ result.hallucination_risk = float(1, 2)
    /\ ~result.validation_passed
    /\ result.citations = <<>>
    /\ result.claims = {}
    /\ result.recommendations.manual_review

(* C20: whenever the body of hallucination_check raises (arguments that    *)
(* are not a non-empty dict, content that is not a str or is over 1MB,     *)
(* sources that are not a list, a failure inside the detection) the call   *)
(* returns the fallback: risk 0.5, validation_passed False, no citations,  *)
(* no claims, the manual-review recommendation; and a check that succeeds  *)
(* returns its result whether or not the result could be saved.            *)
CheckNeverRaises ==
    /\ pc # "check_raised"
    /\ pc = "checked" =>
          IF check_raises(next_action) THEN is_fallback(ret)
          ELSE ret = detect_hallucinations(next_action.value.content_from)

----------------------------------------------------------------------------
(* ResearchContext.can_perform_action of both agents called on any history *)

MaxHistory == 4

MaxAttempts == 3

GuardedActions == {"discover_sources", "fetch_content"}

InitGuard ==
    /\ agent \in {"legacy", "enhanced"}
    /\ \E history \in UNION {[1..n -> GuardedActions] : n \in 0..MaxHistory},
          attempts \in 1..MaxAttempts :
          context = [ResearchContext(DefaultGoal) EXCEPT
                        !.action_history = history,
                        !.max_same_action_attempts = attempts]
    /\ pc = "policy"
    /\ iteration = 0
    /\ next_action = Action("none")
    /\ ret = NoResult
    /\ planner = planning_templates
    /\ store = {}

(* context.can_perform_action(action) *)
CallCanPerformAction ==
    /\ pc = "policy"
    /\ \E a \in GuardedActions :
         /\ next_action' = Action(a)
         /\ ret' = [allowed |-> IF agent = "legacy"
                                THEN can_perform_action(context, a)
                                ELSE can_perform_action_enhanced(context, a)]
    /\ pc' = "guarded"
    /\ UNCHANGED <<planner, store, agent, context, iteration>>

NextGuard == CallCanPerformAction

SpecGuard == InitGuard /\ [][NextGuard]_vars

(* C21: can_perform_action(a) is False exactly when the history has at     *)
(* least max_same_action_attempts entries and the last                     *)
(* max_same_action_attempts of them are all a; the legacy and the enhanced *)
(* method agree on every history and every max_same_action_attempts >= 1.  *)
GuardBlocksRepeats ==
    pc = "guarded" =>
        LET h == context.action_history
            N == context.max_same_action_attempts
            a == next_action.action
            all_a == /\ Len(h) >= N
                     /\ \A k \in (Len(h) - N + 1)..Len(h) : h[k] = a
        IN /\ ret.allowed = ~all_a
           /\ can_perform_action(context, a) = can_perform_action_enhanced(context, a)

(* a history longer than the window that ends with a full window of the    *)
(* action after another action, refused *)
GuardBlocksRepeatsWitness ==
    /\ pc = "guarded"
    /\ context.max_same_action_attempts = 2
    /\ context.action_history
          = <<"fetch_content", "discover_sources", "discover_sources">>
    /\ next_action.action = "discover_sources"
    /\ ~ret.allowed

----------------------------------------------------------------------------
(* C22: get_ready_tasks lists the ready tasks in the order of graph.tasks: *)
(* the positions returned increase, and the first task returned is the     *)
(* first task of graph.tasks that is pending with every dependency         *)
(* completed, whatever else the call is made with.                         *)
ReadyInDeclarationOrder ==
    pc = "returned" =>
        LET tasks == context.task_graph.tasks
            is_ready(i) ==
                /\ tasks[i].status = "pending"
                /\ \A d \in Range(tasks[i].depends_on) :
                      \E j \in 1..Len(tasks) :
                          tasks[j].id = d /\ tasks[j].status = "completed"
        IN /\ \A k \in 1..(Len(ret) - 1) : ret[k] < ret[k + 1]
           /\ ret # <<>> =>
                 /\ is_ready(ret[1])
                 /\ \A i \in 1..(ret[1] - 1) : ~is_ready(i)

(* two tasks ready at once, the second depending on nothing either *)
ReadyInDeclarationOrderWitness ==
    /\ pc = "returned"
    /\ Len(ret) >= 2
    /\ ret[1] = 1
    /\ context.task_graph.tasks[ret[2]].depends_on = <<>>

----------------------------------------------------------------------------
(* the tasks of S that no order can place: those left when the tasks with *)
(* no dependency inside S are taken away again and again                  *)
RECURSIVE Unordered(_, _)
Unordered(tasks, S) ==
    LET held == {i \in S : \E j \in S : depends_on_task(tasks, i, j)}
    IN IF held = S THEN S ELSE Unordered(tasks, held)

(* C23: in every state of a run, the tasks the enhanced policy appends    *)
(* included, every id in a task's depends_on is the id of a task of the   *)
(* same graph, and no task depends on itself directly or through others.  *)
DependenciesResolveAcyclic ==
    ~context.task_graph.is_none =>
        LET tasks == context.task_graph.tasks
        IN /\ \A i \in 1..Len(tasks) :
                 \A d \in Range(tasks[i].depends_on) : dep_task(tasks, d) # 0
           /\ Unordered(tasks, 1..Len(tasks)) = {}

(* the policy has appended a task behind the last task of the plan *)
DependenciesResolveAcyclicWitness ==
    /\ ~context.task_graph.is_none
    /\ LET tasks == context.task_graph.tasks
       IN /\ Len(tasks) >= 2
          /\ tasks[Len(tasks)].id[1] = "ADDED"
          /\ tasks[Len(tasks)].depends_on # <<>>

----------------------------------------------------------------------------
(* validation_tools.py: validate_citation_against_sources                  *)

MaxTitleWords == 3

(* a text is the list of its pieces in reading order: words (runs of       *)
(* letters, digits and underscores) and the punctuation between them       *)
TitleWords == {"Smith", "study", "2023"}
Punctuation == {"(", ")", ","}

(* str.lower *)
lower(text) == [k \in 1..Len(text) |-> IF text[k] = "Smith" THEN "smith" ELSE text[k]]

(* re.findall(r'\w+', text) *)
is_word(piece) == piece \notin Punctuation
findall_words(text) == SelectSeq(text, is_word)

SourceTitles == SeqsUpTo(TitleWords, MaxTitleWords)

(* search results: a title and a url, or no title at all *)
SourceDicts == {[title |-> t, url |-> "u"] : t \in SourceTitles} \cup {[url |-> "u"]}

SourceLists == {<<>>} \cup {<<a>> : a \in SourceDicts} \cup {<<a, b>> : a, b \in SourceDicts}

CitationTexts ==
    { <<"(", "Smith", ",", "2023", ")">>,
      <<"(", "smith", "study", ")">>,
      <<"study", ",", "2023", ",", "Smith">>,
      <<"(", ")">> }

(* set(title_words) & set(citation_words) for one source *)
matching_words(citation_text, source) ==
    LET title_words == findall_words(lower(dict_get(source, "title", <<>>)))
        citation_words == findall_words(lower(citation_text))
    IN Range(title_words) \cap Range(citation_words)

(* the loop of validate_citation_against_sources with one shared word     *)
(* taken as a match                                                       *)
RECURSIVE validate_from_one_word(_, _, _)
validate_from_one_word(citation, sources, k) ==
    IF k > Len(sources)
    THEN [citation |-> citation, validated |-> FALSE, source |-> 0,
          match_type |-> "no_match", confidence |-> float(0, 1)]
    ELSE LET title_words ==
                 findall_words(lower(dict_get(sources[k], "title", <<>>)))
             matching == matching_words(citation.text, sources[k])
         IN IF Cardinality(matching) >= 1
            THEN [citation |-> citation, validated |-> TRUE, source |-> k,
                  match_type |-> "title_match",
                  confidence |-> float_min(float(Cardinality(matching), Len(title_words)),
                                           float(1, 1))]
            ELSE validate_from_one_word(citation, sources, k + 1)

(* the loop over sources from the k-th on; 'source' is the position of    *)
(* the source returned, 0 for None                                        *)
RECURSIVE validate_from(_, _, _)
validate_from(citation, sources, k) ==
    IF k > Len(sources)
    THEN [citation |-> citation, validated |-> FALSE, source |-> 0,
          match_type |-> "no_match", confidence |-> float(0, 1)]
    ELSE LET title_words ==
                 findall_words(lower(dict_get(sources[k], "title", <<>>)))
             matching == matching_words(citation.text, sources[k])
         IN IF Cardinality(matching) >= 2
            THEN [citation |-> citation, validated |-> TRUE, source |-> k,
                  match_type |-> "title_match",
                  confidence |-> float_min(float(Cardinality(matching), Len(title_words)),
                                           float(1, 1))]
            ELSE validate_from(citation, sources, k + 1)

validate_citation_against_sources(citation, sources) == validate_from(citation, sources, 1)

(* validate_citation_against_sources called on its own *)
ValidateCitationAgainstSources ==
    /\ pc = "idle"
    /\ \E text \in CitationTexts, sources \in SourceLists :
          /\ next_action' = [citation |-> [text |-> text, type |-> "author_year"],
                             sources |-> sources]
          /\ ret' = validate_citation_against_sources(
                        [text |-> text, type |-> "author_year"], sources)
    /\ pc' = "validated"
    /\ UNCHANGED <<planner, store, agent, context, iteration>>

NextCitation == ValidateCitationAgainstSources

SpecCitation == InitCheck /\ [][NextCitation]_vars

(* C24: a citation is reported validated exactly when some source title    *)
(* shares at least two distinct words with the citation text; the source   *)
(* returned is the first such source of the list and the confidence is     *)
(* min(1, shared words / title words), above 0 and at most 1; when no      *)
(* source qualifies the result is validated = false with confidence 0.0.   *)
CitationMatchesTitle ==
    pc = "validated" =>
        LET sources == next_action.sources
            text == next_action.citation.text
            title(k) == IF "title" \in DOMAIN sources[k]
                        THEN sources[k].title ELSE <<>>
            fold(w) == IF w = "Smith" THEN "smith" ELSE w
            words_of(t) == {fold(t[i]) : i \in {j \in 1..Len(t) : t[j] \notin Punctuation}}
            word_count(t) == Cardinality({j \in 1..Len(t) : t[j] \notin Punctuation})
            shared(k) == words_of(title(k)) \cap words_of(text)
            qualifies(k) == Cardinality(shared(k)) >= 2
        IN /\ ret.validated = (\E k \in 1..Len(sources) : qualifies(k))
           /\ ret.validated =>
                 /\ qualifies(ret.source)
                 /\ \A j \in 1..(ret.source - 1) : ~qualifies(j)
                 /\ ret.confidence.num * word_count(title(ret.source))
                       = Cardinality(shared(ret.source)) * ret.confidence.den
                 /\ ret.confidence.num > 0
                 /\ ret.confidence.num <= ret.confidence.den
           /\ ~ret.validated =>
                 /\ ret.source = 0
                 /\ ret.confidence = float(0, 1)

(* '(Smith, 2023)' against the single title 'Smith study': one shared word *)
CitationMatchesTitleWitness ==
    /\ pc = "validated"
    /\ next_action.citation.text = <<"(", "Smith", ",", "2023", ")">>
    /\ next_action.sources = <<[title |-> <<"Smith", "study">>, url |-> "u"]>>
    /\ ~ret.validated

----------------------------------------------------------------------------
(* task_graph.py: safe_topic of create_plan on its own, for every topic   *)
(* of at most MaxTopicLen characters                                      *)

MaxTopicLen == 3

TopicChars == {"G", "1", "é", " ", ":", "-"}

(* create_plan(topic): the safe_topic it computes *)
ComputeSafeTopic ==
    /\ pc = "plan"
    /\ \E topic \in SeqsUpTo(TopicChars, MaxTopicLen) :
          /\ next_action' = [topic |-> topic]
          /\ ret' = safe_topic(topic)
    /\ pc' = "planned"
    /\ UNCHANGED <<planner, store, agent, context, iteration>>

NextSafeTopic == ComputeSafeTopic

SpecSafeTopic == InitPlan /\ [][NextSafeTopic]_vars

ascii_safe(c) == c \in {"G", "1", " ", "-", "_"}

(* C25 as stated: safe_topic is the topic with every character outside    *)
(* [A-Za-z0-9 _-] removed and every remaining space replaced by '_', so   *)
(* it holds only characters of [A-Za-z0-9_-].                             *)
SafeTopicAscii ==
    pc = "planned" =>
        LET kept == SelectSeq(next_action.topic, ascii_safe)
        IN /\ ret = [k \in 1..Len(kept) |-> IF kept[k] = " " THEN "_" ELSE kept[k]]
           /\ \A k \in 1..Len(ret) : ascii_safe(ret[k]) /\ ret[k] # " "

(* C25: safe_topic is the topic with every character that is neither      *)
(* alphanumeric nor one of ' ', '-', '_' removed, the spaces then left at *)
(* the end dropped, and every remaining space replaced by '_'; it holds   *)
(* only alphanumeric characters, '_' and '-'.                             *)
SafeTopicAlnum ==
    pc = "planned" =>
        LET keepable(c) == c \in {"G", "1", "é", " ", "-", "_"}
            kept == SelectSeq(next_action.topic, keepable)
            ends == {k \in 1..Len(kept) : kept[k] # " "}
        IN /\ Len(ret) = Cardinality({k \in 1..Len(kept) : \E e \in ends : k <= e})
           /\ \A k \in 1..Len(ret) :
                 /\ ret[k] = IF kept[k] = " " THEN "_" ELSE kept[k]
                 /\ ret[k] \in {"G", "1", "é", "-", "_"}

(* 'G 1' gives 'G_1', and 'G: ' gives 'G' with the space at the end gone *)
SafeTopicAlnumWitness ==
    /\ pc = "planned"
    /\ next_action.topic = <<"G", ":", " ">>
    /\ ret = <<"G">>

----------------------------------------------------------------------------
(* C26: create_plan never raises: after any sequence of calls on one      *)
(* planner, with any topic and any template name, no call has raised and  *)
(* every graph returned has the tasks of the biblical_exegesis template,  *)
(* in the template's order.                                               *)
CreatePlanNeverRaises ==
    /\ pc # "plan_raised"
    /\ pc = "plan" =>
          \A g \in 1..Len(ret) :
              [i \in 1..Len(ret[g].tasks) |-> ret[g].tasks[i].id]
                 = [i \in 1..Len(biblical_exegesis) |-> biblical_exegesis[i].id]

----------------------------------------------------------------------------
(* the heuristic rules (a) to (h) in order, for the context ctx: whether  *)
(* each one's condition holds, and the action, strategy and reason it     *)
(* gives; an action is permitted unless the last                          *)
(* max_same_action_attempts entries of the history are all that action    *)
HeuristicRules(ctx) ==
    LET n == Len(ctx.sources)
        h == ctx.action_history
        N == ctx.max_same_action_attempts
        permitted(a) == ~(Len(h) >= N /\ \A k \in (Len(h) - N + 1)..Len(h) : h[k] = a)
        rule(holds, action, strategy, reason) ==
            [holds |-> holds, action |-> action, strategy |-> strategy, reason |-> reason]
    IN << rule(n < ctx.goal.min_sources /\ permitted("discover_sources"),
               "discover_sources",
               IF n < 3 THEN "broad_search" ELSE "targeted_search", None),
          rule(_find_missing_perspectives(ctx) # <<>> /\ permitted("discover_sources"),
               "discover_sources", "perspective_search", None),
          rule(n >= ctx.goal.min_sources /\ ctx.current_focus = "initial_discovery",
               "fetch_content", None, None),
          rule(ctx.quality_score < ctx.goal.quality_threshold /\ permitted("improve_quality"),
               "improve_quality", None, None),
          rule(_identify_knowledge_gaps(ctx) # <<>> /\ permitted("fill_gaps"),
               "fill_gaps", None, None),
          rule(_all_criteria_met(ctx), "complete", None, "criteria_met"),
          rule(permitted("synthesize_current_findings"),
               "synthesize_current_findings", None, None),
          rule(TRUE, "complete", None, "no_viable_actions") >>

FirstRule(ctx) ==
    LET rules == HeuristicRules(ctx)
        first == CHOOSE k \in 1..Len(rules) :
                    rules[k].holds /\ \A j \in 1..(k - 1) : ~rules[j].holds
    IN rules[first]

(* the decision is the one the rule r gives, and it is not blocked *)
Follows(action, ctx, r) ==
    /\ action.action = r.action
    /\ action.strategy = r.strategy
    /\ action.reason = r.reason
    /\ action.action # "complete" =>
          ~(/\ Len(ctx.action_history) >= ctx.max_same_action_attempts
            /\ \A k \in 1..Len(ctx.action_history) :
                  k > Len(ctx.action_history) - ctx.max_same_action_attempts
                     => ctx.action_history[k] = action.action)

----------------------------------------------------------------------------
(* what of a task is fixed when it is made *)
shape(task) == [id |-> task.id, tool |-> task.tool, depends_on |-> task.depends_on]

(* C28 as stated: once the plan is expanded, the list of tasks of the     *)
(* context's graph and each task's depends_on never change.               *)
GraphShapeFixed ==
    [][pc # "start" =>
          [i \in 1..Len(graph_tasks') |-> shape(graph_tasks'[i])]
             = [i \in 1..Len(graph_tasks) |-> shape(graph_tasks[i])]]_vars

(* C28: once the plan is expanded no task is removed or moved and no      *)
(* task's id, tool or depends_on changes; the list grows only at the end, *)
(* when the enhanced policy finds no ready task and appends pending       *)
(* web_search tasks that depend on the task that was last.                *)
GraphShapeGrowsAtEnd ==
    [][pc # "start" =>
          /\ Len(graph_tasks') >= Len(graph_tasks)
          /\ \A i \in 1..Len(graph_tasks) :
                shape(graph_tasks'[i]) = shape(graph_tasks[i])
          /\ Len(graph_tasks') > Len(graph_tasks) =>
                /\ pc = "decide" /\ agent = "enhanced"
                /\ ReadySet(graph_tasks) = {}
                /\ \A i \in (Len(graph_tasks) + 1)..Len(graph_tasks') :
                      /\ graph_tasks'[i].tool = "web_search"
                      /\ graph_tasks'[i].status = "pending"
                      /\ graph_tasks'[i].depends_on
                            = IF graph_tasks = <<>> THEN <<>>
                              ELSE <<graph_tasks[Len(graph_tasks)].id>>]_vars

(* two tasks were appended behind the plan's last task after a task of    *)
(* the plan had completed                                                 *)
GraphShapeGrowsAtEndWitness ==
    /\ ~context.task_graph.is_none
    /\ Len(graph_tasks) >= Len(biblical_exegesis) + 2
    /\ graph_tasks[1].status = "completed"
    /\ graph_tasks[Len(graph_tasks)].depends_on = <<graph_tasks[Len(biblical_exegesis)].id>>

----------------------------------------------------------------------------
(* enhanced_autonomous_researcher.py: one iteration that executes a        *)
(* web_search task, with the list the search returns kept in the result    *)

(* the dict _execute_task returns *)
task_completed(i, result) == [action |-> "task_completed", task |-> i, result |-> result]

(* _update_context: each of the keys it looks for is folded in when the    *)
(* result has it                                                           *)
_update_context(ctx, result) ==
    [ctx EXCEPT
        !.sources = IF "new_sources" \in DOMAIN result
                    THEN @ \o result.new_sources ELSE @,
        !.insights = IF "insights" \in DOMAIN result THEN result.insights ELSE @,
        !.quality_score = IF "quality_score" \in DOMAIN result
                          THEN result.quality_score ELSE @,
        !.completed_criteria = IF "completed_criteria" \in DOMAIN result
                               THEN @ \o result.completed_criteria ELSE @,
        !.validation_results = IF "validation_results" \in DOMAIN result
                               THEN result.validation_results ELSE @]

(* _execute_action for an execute_task whose tool is web_search, then      *)
(* _update_context, the validation of every fifth iteration and add_action *)
ExecuteWebSearchTask ==
    /\ pc = "execute" /\ agent = "enhanced"
    /\ next_action.action = "execute_task"
    /\ context.task_graph.tasks[next_action.task].tool = "web_search"
    /\ \E results \in SearchResults, passed \in BOOLEAN :
         LET i == next_action.task
             executed == [context EXCEPT !.task_graph.tasks[i].status = "completed"]
             result == task_completed(i, results)
             updated == _update_context(executed, result)
         IN /\ ret' = result
            /\ context' = after_action(updated, updated.insights, passed)
            /\ store' = save_run_validation(
                            store, updated,
                            updated.goal.enable_validation /\ iteration % 5 = 0,
                            passed)
    /\ pc' = "loop"
    /\ UNCHANGED <<planner, agent, iteration, next_action>>

NextFold ==
    \/ LoopTest
    \/ Decide
    \/ ExecuteWebSearchTask

SpecFold == InitExec /\ [][NextFold]_vars

(* C29: when a web_search task has completed, the sources it returned are *)
(* in context.sources, behind those already there, before the next        *)
(* decision is made.                                                      *)
TaskResultFolded ==
    [][(pc = "execute" /\ pc' = "loop")
          => context'.sources = context.sources \o ret'.result]_vars

----------------------------------------------------------------------------
(* C30: every iteration that does not end the run executes the one action *)
(* decided and appends exactly that action's name to action_history       *)
(* before the loop is tested again; nothing else writes the history. So   *)
(* at every decision the history has one entry per iteration made so far, *)
(* and it never has more entries than iterations.                         *)
OneActionPerIteration ==
    [][LET h == context.action_history
           executed == pc \in {"execute", "running"} /\ pc' = "loop"
       IN /\ executed => /\ context'.action_history = Append(h, next_action.action)
                         /\ next_action.action # "complete"
                         /\ iteration' = iteration
          /\ context'.action_history # h => executed
          /\ pc' = "decide" => Len(context'.action_history) = iteration'
          /\ Len(context'.action_history) <= iteration'
          /\ pc = "decide" => iteration' = iteration + 1]_vars

(* the third decision of an enhanced run: two tasks executed, two entries *)
OneActionPerIterationWitness ==
    /\ pc = "decide" /\ agent = "enhanced"
    /\ iteration = 2
    /\ context.action_history = <<"execute_task", "execute_task">>

----------------------------------------------------------------------------
(* C31 as stated: when a run of the enhanced agent with validation        *)
(* enabled has ended, validation_results of the result is set.            *)
ValidatedAtEnd ==
    (pc = "done" /\ agent = "enhanced" /\ context.goal.enable_validation)
        => context.validation_results # None

(* C31: when a run of the enhanced agent with validation enabled has      *)
(* ended, validation_results of the result is set exactly when the        *)
(* context holds at least one source; with no source the validator is not *)
(* called and validation_results is None.                                 *)
ValidatedAtEndWithSources ==
    (pc = "done" /\ agent = "enhanced" /\ context.goal.enable_validation)
        => (context.validation_results # None <=> context.sources # <<>>)

(* a run entered with two sources ends before its fifth iteration, scored *)
(* by the final validation                                                *)
ValidatedAtEndWitness ==
    /\ pc = "done" /\ agent = "enhanced"
    /\ context.goal.enable_validation
    /\ ret.iterations < 5
    /\ context.sources # <<>>
    /\ context.validation_results \in {"passed", "not passed"}

----------------------------------------------------------------------------
(* enhanced_autonomous_researcher.py: _synthesize_insights as the units of *)
(* asyncio.gather run it. The units are coroutines on one event loop: one  *)
(* runs until its next await, then any unit whose await has been answered  *)
(* goes on. Here pc is the position of _synthesize_insights, next_action   *)
(* holds the frame of each process_source unit, and ret the local dict     *)
(* `insights` together with a log of which unit wrote which entry.         *)

MaxUnits == 2

themes == <<"historical context", "theological implications", "scholarly consensus", "contemporary application">>

(* theme.replace(" ", "_") *)
theme_key(theme) ==
    CASE theme = "historical context" -> "historical_context"
      [] theme = "theological implications" -> "theological_implications"
      [] theme = "scholarly consensus" -> "scholarly_consensus"
      [] theme = "contemporary application" -> "contemporary_application"

(* what _fetch_content can give: a text starting with "Error", or a page   *)
(* whose lower-cased text contains none, one or all of the themes          *)
FetchedContents ==
    { [error |-> TRUE, themes |-> {}],
      [error |-> FALSE, themes |-> {}],
      [error |-> FALSE, themes |-> {"historical context"}],
      [error |-> FALSE, themes |-> Range(themes)] }

NoContent == [error |-> FALSE, themes |-> {}]

UrlSource(url) == Source(url, "t", {}, None)

(* source lists: up to MaxUnits sources with a url, alone or followed by   *)
(* sources without a url and a last source with one, at position 10 or 11  *)
SynthSources ==
    LET heads == {[k \in 1..Len(h) |-> UrlSource(h[k])] :
                     h \in SeqsUpTo({"u1", "u2"}, MaxUnits)}
        padded(head, n) ==
            [k \in 1..n |-> IF k <= Len(head) THEN head[k]
                            ELSE IF k = n THEN UrlSource("u3")
                            ELSE UrlSource("")]
    IN heads \cup {padded(head, n) : head \in heads, n \in {10, 11}}

(* the slice left out: every source gets a unit *)
first_ten_all(sources) == sources

(* context.sources[:10] *)
first_ten(sources) == SubSeq(sources, 1, Min(Len(sources), 10))

InitSynth ==
    /\ agent = "enhanced"
    /\ \E sources \in SynthSources :
          context = [ResearchContext(DefaultGoal) EXCEPT !.sources = sources]
    /\ pc = "synthesize"
    /\ iteration = 0
    /\ next_action = <<>>
    /\ ret = [key_themes |-> NoThemes, summaries |-> {}, writes |-> {}]
    /\ planner = planning_templates
    /\ store = {}

(* insights is initialised and gather starts one unit per source of        *)
(* sources[:10]; a unit whose source has no url returns at once, the       *)
(* others stop at `await self._fetch_content(url)`                         *)
Gather ==
    /\ pc = "synthesize"
    /\ ret' = [key_themes |-> [k \in {theme_key(themes[j]) : j \in 1..Len(themes)} |-> 0],
               summaries |-> {}, writes |-> {}]
    /\ next_action' =
          [i \in 1..Len(first_ten(context.sources)) |->
              [at |-> IF first_ten(context.sources)[i].url # ""
                      THEN "fetching" ELSE "done",
               url |-> first_ten(context.sources)[i].url,
               content |-> NoContent,
               summarized |-> FALSE]]
    /\ pc' = "gather"
    /\ UNCHANGED <<planner, store, agent, context, iteration>>

(* the fetch of unit i is answered: an "Error" text ends the unit, any     *)
(* other text takes it to `await self.llm.a_chat_completion_text(...)`     *)
FetchAnswered(i) ==
    /\ pc = "gather"
    /\ next_action[i].at = "fetching"
    /\ \E content \in FetchedContents :
          next_action' = [next_action EXCEPT
                             ![i].at = IF content.error THEN "done" ELSE "summarising",
                             ![i].content = content]
    /\ UNCHANGED <<planner, store, agent, context, iteration, ret, pc>>

(* key_themes with every counter set to 1 where it should go up by 1 *)
count_themes_as_flags(key_themes, content) ==
    [k \in DOMAIN key_themes |->
        IF \E j \in 1..Len(themes) : theme_key(themes[j]) = k /\ themes[j] \in content.themes
        THEN 1 ELSE key_themes[k]]

(* for theme in themes: if theme in lowercase:                             *)
(*     insights["key_themes"][theme.replace(" ", "_")] += 1                *)
count_themes(key_themes, content) ==
    [k \in DOMAIN key_themes |->
        IF \E j \in 1..Len(themes) : theme_key(themes[j]) = k /\ themes[j] \in content.themes
        THEN key_themes[k] + 1 ELSE key_themes[k]]

(* the summary of unit i arrives: the unit runs to its end without another *)
(* await, writing insights["summaries"][url] and the counters              *)
SummaryAnswered(i) ==
    /\ pc = "gather"
    /\ next_action[i].at = "summarising"
    /\ LET unit == next_action[i]
           counted == {theme_key(t) : t \in unit.content.themes}
       IN ret' = [key_themes |-> count_themes(ret.key_themes, unit.content),
                  summaries |-> ret.summaries \cup {unit.url},
                  writes |-> ret.writes
                               \cup {[map |-> "summaries", key |-> unit.url, unit |-> i]}
                               \cup {[map |-> "key_themes", key |-> k, unit |-> i] :
                                        k \in counted}]
    /\ next_action' = [next_action EXCEPT ![i].at = "done", ![i].summarized = TRUE]
    /\ UNCHANGED <<planner, store, agent, context, iteration, pc>>

(* the LLM client raises in unit i: gather raises it to the caller of      *)
(* _synthesize_insights, and insights is dropped                           *)
SummaryRaised(i) ==
    /\ pc = "gather"
    /\ next_action[i].at = "summarising"
    /\ next_action' = [next_action EXCEPT ![i].at = "raised"]
    /\ pc' = "raised"
    /\ UNCHANGED <<planner, store, agent, context, iteration, ret>>

(* every unit has returned: gather returns and insights is handed back *)
GatherReturns ==
    /\ pc = "gather"
    /\ \A i \in 1..Len(next_action) : next_action[i].at = "done"
    /\ pc' = "returned"
    /\ UNCHANGED <<planner, store, agent, context, iteration, next_action, ret>>

NextSynth ==
    \/ Gather
    \/ \E i \in 1..Len(next_action) : FetchAnswered(i)
    \/ \E i \in 1..Len(next_action) : SummaryAnswered(i)
    \/ \E i \in 1..Len(next_action) : SummaryRaised(i)
    \/ GatherReturns

SpecSynth == InitSynth /\ [][NextSynth]_vars

(* two writes of different units to the same entry of insights *)
shared_entry(w1, w2) == w1.map = w2.map /\ w1.key = w2.key /\ w1.unit # w2.unit

(* C32 as stated: at most the first 10 sources get a unit and, under      *)
(* every interleaving, no two units write the same entry of the insights  *)
(* maps.                                                                  *)
UnitsWriteDistinctEntries ==
    pc \in {"gather", "returned", "raised"} =>
        /\ Len(next_action) <= 10
        /\ \A w1, w2 \in ret.writes : ~shared_entry(w1, w2)

(* C32: at most the first 10 sources get a unit; under every interleaving *)
(* a unit writes only the summaries entry of its own source's url and the *)
(* key_themes counters of the themes its content contains, so two units   *)
(* write the same entry only when their sources share a url or their      *)
(* contents share a theme.                                                *)
UnitsWriteOwnEntries ==
    pc \in {"gather", "returned", "raised"} =>
        /\ Len(next_action) <= 10
        /\ \A i \in 1..Len(next_action) : next_action[i].url = context.sources[i].url
        /\ \A w \in ret.writes :
              /\ w.unit \in 1..Len(next_action)
              /\ w.map = "summaries" => w.key = context.sources[w.unit].url
              /\ w.map = "key_themes" =>
                    \E t \in next_action[w.unit].content.themes :
                        w.key = theme_key(t)
        /\ \A w1, w2 \in ret.writes :
              shared_entry(w1, w2) =>
                  \/ w1.map = "key_themes"
                  \/ context.sources[w1.unit].url = context.sources[w2.unit].url

(* eleven sources, ten units, and two units with different urls have      *)
(* raised the same counter                                                *)
UnitsWriteOwnEntriesWitness ==
    /\ pc = "returned"
    /\ Len(context.sources) = 11
    /\ Len(next_action) = 10
    /\ \E w1, w2 \in ret.writes :
          /\ shared_entry(w1, w2)
          /\ w1.map = "key_themes"
          /\ context.sources[w1.unit].url # context.sources[w2.unit].url

(* C39: under every interleaving of the units, when _synthesize_insights  *)
(* returns, each key_themes counter equals the number of units that       *)
(* fetched and summarized their source and whose content contains the     *)
(* theme.                                                                 *)
ThemeCountsExact ==
    pc = "returned" =>
        \A j \in 1..Len(themes) :
            ret.key_themes[theme_key(themes[j])]
               = Cardinality({i \in 1..Len(next_action) :
                                 /\ next_action[i].summarized
                                 /\ themes[j] \in next_action[i].content.themes})

(* two units counted the same theme and a third fetched an error *)
ThemeCountsExactWitness ==
    /\ pc = "returned"
    /\ ret.key_themes["historical_context"] = 2
    /\ ret.key_themes["scholarly_consensus"] = 1
    /\ \E i \in 1..Len(next_action) : next_action[i].content.error

----------------------------------------------------------------------------
(* moonshot_client.py: MoonshotClient.chat_completion and                  *)
(* a_chat_completion, one loop in both. Here next_action names the method  *)
(* called, iteration is `attempt`, and ret holds `backoff`, the sleeps     *)
(* made so far (seconds) and what each attempt ended in.                   *)

max_attempts == 3

(* what chat.completions.create can end in: a response, or an exception.   *)
(* In the openai SDK RateLimitError, APITimeoutError and                   *)
(* AuthenticationError are all subclasses of APIError; TypeError is not.   *)
APIErrors == {"RateLimitError", "APITimeoutError", "AuthenticationError"}

AttemptOutcomes == {"response"} \cup APIErrors \cup {"TypeError"}

(* except (RateLimitError, APITimeoutError, APIError) *)
caught(outcome) == outcome \in {"RateLimitError", "APITimeoutError"} \cup APIErrors

ChatMethods == {"chat_completion", "a_chat_completion"}

InitChat ==
    /\ agent = "enhanced"
    /\ context = ResearchContext(DefaultGoal)
    /\ pc = "idle"
    /\ iteration = 0
    /\ next_action = None
    /\ ret = None
    /\ planner = planning_templates
    /\ store = {}

(* the call up to the first attempt: max_attempts = 3, backoff = 1.0 *)
CallChatCompletion ==
    /\ pc = "idle"
    /\ \E method \in ChatMethods : next_action' = method
    /\ iteration' = 1
    /\ ret' = [backoff |-> 1, sleeps |-> <<>>, outcomes |-> <<>>]
    /\ pc' = "attempt"
    /\ UNCHANGED <<planner, store, agent, context>>

(* one pass of `for attempt in range(1, max_attempts + 1)` *)
Attempt ==
    /\ pc = "attempt"
    /\ \E outcome \in AttemptOutcomes :
         LET seen == [ret EXCEPT !.outcomes = Append(@, outcome)]
         IN IF outcome = "response"
            THEN /\ pc' = "chat_returned"
                 /\ ret' = seen
                 /\ UNCHANGED iteration
            ELSE IF ~caught(outcome) \/ iteration = max_attempts
            THEN /\ pc' = "chat_raised"
                 /\ ret' = seen
                 /\ UNCHANGED iteration
            ELSE /\ pc' = "attempt"
                 /\ ret' = [seen EXCEPT !.sleeps = Append(@, ret.backoff),
                                        !.backoff = 2 * @]
                 /\ iteration' = iteration + 1
    /\ UNCHANGED <<planner, store, agent, context, next_action>>

NextChat ==
    \/ CallChatCompletion
    \/ Attempt

SpecChat == InitChat /\ [][NextChat]_vars

(* C33: a chat-completion call makes at most 3 attempts; a rate-limit or  *)
(* timeout error is retried after a backoff of 1s, then 2s, and raised    *)
(* after the third failed attempt; a response ends the call at once; any  *)
(* other error is raised on its first occurrence, without a retry.        *)
RetryOnlyTransient ==
    pc \in {"attempt", "chat_returned", "chat_raised"} =>
        LET outcomes == ret.outcomes
            n == Len(outcomes)
            transient == {"RateLimitError", "APITimeoutError"}
        IN /\ n <= 3
           /\ \A k \in 1..(n - 1) : outcomes[k] \in transient
           /\ ret.sleeps = [k \in 1..Len(ret.sleeps) |-> IF k = 1 THEN 1 ELSE 2]
           /\ pc = "attempt" => Len(ret.sleeps) = n /\ n < 3
                                   /\ \A k \in 1..n : outcomes[k] \in transient
           /\ pc = "chat_returned" => outcomes[n] = "response" /\ Len(ret.sleeps) = n - 1
           /\ pc = "chat_raised" =>
                 /\ outcomes[n] # "response"
                 /\ Len(ret.sleeps) = n - 1
                 /\ outcomes[n] \in transient => n = 3

----------------------------------------------------------------------------
(* C34: in every state of a run, every task that has been started (it is  *)
(* running, completed or failed) has each id of its depends_on borne by a *)
(* completed task of the graph.                                           *)
StartedAfterDependencies ==
    ~context.task_graph.is_none =>
        \A i \in 1..Len(graph_tasks) :
            graph_tasks[i].status \in {"running", "completed", "failed"} =>
                \A d \in Range(graph_tasks[i].depends_on) :
                    \E j \in 1..Len(graph_tasks) :
                        /\ graph_tasks[j].id = d
                        /\ graph_tasks[j].status = "completed"

(* a task with a dependency is running *)
StartedAfterDependenciesWitness ==
    /\ ~context.task_graph.is_none
    /\ \E i \in 1..Len(graph_tasks) :
          /\ graph_tasks[i].status = "running"
          /\ graph_tasks[i].depends_on # <<>>

----------------------------------------------------------------------------
(* C35: in every state of a run of either agent failed_attempts is 0, as  *)
(* the context was constructed, so no decision is complete with           *)
(* max_attempts_reached and the completion check never passes on          *)
(* failed_attempts.                                                       *)
FailedAttemptsStayZero ==
    /\ context.failed_attempts = 0
    /\ next_action.reason # "max_attempts_reached"
    /\ ~max_attempts_reached(context)

(* a run has ended after a failed task, or after a search that found      *)
(* nothing, with no failed attempt counted                                *)
FailedAttemptsStayZeroWitness ==
    /\ pc = "done"
    /\ context.failed_attempts = 0
    /\ \/ /\ agent = "enhanced" /\ ~context.task_graph.is_none
          /\ \E i \in 1..Len(graph_tasks) : graph_tasks[i].status = "failed"
       \/ /\ agent = "legacy"
          /\ context.sources = <<>>
          /\ context.action_history # <<>>

----------------------------------------------------------------------------
(* C36: in every state of a run of the enhanced agent context.sources is  *)
(* empty: neither execute_task nor synthesize_current_findings adds a     *)
(* source.                                                                *)
EnhancedSourcesStayEmpty ==
    agent = "enhanced" => context.sources = <<>>

(* a run of the enhanced agent has ended after its first search task      *)
(* completed, with no source in the context                               *)
EnhancedSourcesStayEmptyWitness ==
    /\ agent = "enhanced" /\ pc = "done"
    /\ ~context.task_graph.is_none
    /\ graph_tasks[1].tool = "web_search"
    /\ graph_tasks[1].status = "completed"
    /\ "execute_task" \in Range(context.action_history)
    /\ context.sources = <<>>

----------------------------------------------------------------------------
(* C37: in every run of the enhanced agent completed_criteria stays       *)
(* empty, so the completion check is false in every state, the loop is    *)
(* left only through a complete decision or the iteration limit, and      *)
(* research_complete of the result is false.                              *)
EnhancedNeverComplete ==
    agent = "enhanced" =>
        /\ context.completed_criteria = <<>>
        /\ ~_is_research_complete_enhanced(context)
        /\ pc = "finish" =>
              (next_action.action = "complete" \/ iteration >= max_iterations)
        /\ pc = "done" => ~ret.research_complete

(* a run of the enhanced agent whose goal asks for no source has ended    *)
(* and reports research_complete false                                    *)
EnhancedNeverCompleteWitness ==
    /\ agent = "enhanced" /\ pc = "done"
    /\ context.goal.min_sources = 0
    /\ iteration >= 1
    /\ ~ret.research_complete

----------------------------------------------------------------------------
(* C38: in every run of the enhanced agent on the biblical_exegesis plan  *)
(* the only tasks executed are SEARCH_PRIMARY, SEARCH_SECONDARY and       *)
(* FETCH_PDFS, in that order; FETCH_PDFS has failed when the run ends;    *)
(* the four tasks behind it stay pending, and so does every task the gap  *)
(* analysis appended, none of which is ever ready.                        *)
OnlySearchesAndFetchExecuted ==
    (agent = "enhanced" /\ ~context.task_graph.is_none) =>
        /\ Len(graph_tasks) >= Len(biblical_exegesis)
        /\ \A i \in 1..Len(biblical_exegesis) :
              graph_tasks[i].id = biblical_exegesis[i].id
        /\ next_action.action = "execute_task" => next_action.task \in 1..3
        /\ graph_tasks[1].status \in {"pending", "running", "completed"}
        /\ graph_tasks[2].status \in {"pending", "running", "completed"}
        /\ graph_tasks[3].status \in {"pending", "running", "failed"}
        /\ graph_tasks[2].status # "pending" => graph_tasks[1].status = "completed"
        /\ graph_tasks[3].status # "pending" => graph_tasks[2].status = "completed"
        /\ pc = "done" => graph_tasks[3].status = "failed"
        /\ \A i \in 4..Len(graph_tasks) :
              /\ graph_tasks[i].status = "pending"
              /\ i \notin ReadySet(graph_tasks)

(* a run has ended with the two searches completed, FETCH_PDFS failed and *)
(* tasks of the gap analysis appended behind FINAL_REPORT, all pending    *)
OnlySearchesAndFetchExecutedWitness ==
    /\ agent = "enhanced" /\ pc = "done"
    /\ ~context.task_graph.is_none
    /\ Len(graph_tasks) > Len(biblical_exegesis)
    /\ graph_tasks[1].status = "completed"
    /\ graph_tasks[2].status = "completed"
    /\ graph_tasks[3].status = "failed"
    /\ \A i \in 4..Len(graph_tasks) : graph_tasks[i].status = "pending"

----------------------------------------------------------------------------
(* autonomous_researcher.py: runs of the legacy agent for goals whose      *)
(* max_sources is the default 15 or as small as min_sources                *)

MaxSourcesChoices == {2, 15}

LegacyGoals ==
    {ResearchGoal(2, mx, qt, rp, TRUE) :
        mx \in MaxSourcesChoices, qt \in ThresholdChoices,
        rp \in {DefaultPerspectives, <<>>}}

InitLegacy ==
    /\ agent = "legacy"
    /\ \E goal \in LegacyGoals : context = ResearchContext(goal)
    /\ pc = "start"
    /\ iteration = 0
    /\ next_action = Action("none")
    /\ ret = NoResult
    /\ planner = planning_templates
    /\ store = {}

NextLegacy ==
    \/ Start
    \/ LoopTest
    \/ Decide
    \/ DiscoverSources
    \/ FetchContent
    \/ ImproveQuality
    \/ FillGaps
    \/ SynthesizeFindings
    \/ Finish

SpecLegacy == InitLegacy /\ [][NextLegacy]_vars

(* no step of a run takes a source away *)
SourcesNeverShrink ==
    [][Len(context'.sources) >= Len(context.sources)]_vars

(* C40: in every run of the legacy agent the number of collected sources  *)
(* never decreases and is never above goal.max_sources.                   *)
SourcesWithinMax ==
    /\ [](Len(context.sources) <= context.goal.max_sources)
    /\ SourcesNeverShrink

====
